---- MODULE Spec2Model ----
(***************************************************************************)
(* A model of xo/tblfmt: the cell formatter (fmt.go), the crosstab view    *)
(* (view.go) and the aligned table encoder (encode.go).                    *)
(*                                                                         *)
(* Text is modelled as sequences of byte tokens.  A one-byte character is  *)
(* the one-character string itself ("a", "1", "\\"); control bytes carry   *)
(* their ASCII names ("TAB", "NL", "CR", ...); the three bytes of the wide *)
(* rune U+8888 are "w1", "w2", "w3".  Source text is a sequence of runes:  *)
(* the same names, with "WIDE" for U+8888 and "BAD" for the byte 0xff,     *)
(* which is not valid UTF-8.                                               *)
(***************************************************************************)
EXTENDS Integers, Sequences, FiniteSets, TLC

\* ------------------------------------------------------------------------
\* Bounds of the model
\* ------------------------------------------------------------------------
MaxLen == 3
MaxOffset == 3
MaxTab == 3

\* ------------------------------------------------------------------------
\* Program constants
\* ------------------------------------------------------------------------
AlignLeft == 0
AlignRight == 1
AlignCenter == 2
RuneError == 65533
RuneSelf == 128

Max(a, b) == IF a >= b THEN a ELSE b

\* the source runes the model knows, with their code points
RuneCode(r) ==
  CASE r = "SOH" -> 1   [] r = "BEL" -> 7   [] r = "BS" -> 8
    [] r = "TAB" -> 9   [] r = "NL" -> 10   [] r = "VT" -> 11
    [] r = "FF" -> 12   [] r = "CR" -> 13   [] r = " " -> 32
    [] r = "\"" -> 34   [] r = "+" -> 43    [] r = "," -> 44
    [] r = "-" -> 45    [] r = "0" -> 48    [] r = "1" -> 49
    [] r = "2" -> 50    [] r = "3" -> 51    [] r = ":" -> 58
    [] r = "?" -> 63    [] r = "\\" -> 92   [] r = "a" -> 97
    [] r = "b" -> 98    [] r = "x" -> 120   [] r = "{" -> 123
    [] r = "}" -> 125
    [] r = "NEL" -> 133 [] r = "WIDE" -> 34952
    [] r = "TAG" -> 917505
    [] r = "BAD" -> 255

\* utf8.EncodeRune: the bytes of a valid rune
EncodeRune(r) ==
  CASE r = "WIDE" -> <<"w1", "w2", "w3">>
    [] r = "NEL" -> <<"c2", "85">>
    [] r = "TAG" -> <<"f3", "a0", "80", "81">>
    [] OTHER -> <<r>>

\* strconv.IsGraphic on the runes of the model
IsGraphic(r) ==
  r \in {" ", "\"", "+", ",", "-", "0", "1", "2", "3", ":", "?", "\\", "a", "b", "x",
         "{", "}", "WIDE"}

\* unicode.IsSpace on the runes of the model
IsSpace(r) == r \in {"TAB", "NL", "VT", "FF", "CR", " ", "NEL"}

\* runewidth.RuneWidth: terminal cells of a rune. The control characters
\* (below U+0020, U+007F to U+009F) and the soft hyphen have none, a wide
\* rune has two, and every other rune of the model has one: U+E0001 is in
\* none of the tables of runes without width
RuneWidth(r) ==
  LET c == RuneCode(r)
  IN IF c < 32 \/ (c >= 127 /\ c <= 159) \/ c = 173 THEN 0
     ELSE IF r = "WIDE" THEN 2
     ELSE 1

lowerhex == <<"0", "1", "2", "3", "4", "5", "6", "7", "8", "9", "a", "b", "c", "d", "e", "f">>

RECURSIVE Pow16(_)
Pow16(k) == IF k = 0 THEN 1 ELSE 16 * Pow16(k - 1)

\* lowerhex[n>>s & 0xf] for s = 4*(digits-1) down to 0
HexDigits(n, digits) ==
  [i \in 1..digits |-> lowerhex[((n \div Pow16(digits - i)) % 16) + 1]]

\* ------------------------------------------------------------------------
\* Value (fmt.go)
\* ------------------------------------------------------------------------
\* a nil []byte, as opposed to an empty one
NilBytes == <<"nil">>

\* a nil *Value
NilValue == [nil |-> TRUE]

\* the zero Value: no buffer, no newlines, a nil Tabs slice
ZeroValue ==
  [Buf |-> <<>>, Newlines |-> <<>>, Tabs |-> <<>>, Width |-> 0,
   Align |-> AlignLeft, Raw |-> FALSE, Quoted |-> FALSE]

\* newValue: a value from a buffer known not to contain characters to escape
newValue(str, align, raw) ==
  [ZeroValue EXCEPT !.Buf = str, !.Align = align, !.Raw = raw, !.Width = Len(str)]

\* one iteration of the loop of FormatBytes: acc = [res, l], r the next rune
FormatRune(acc, r, invalid, invalidWidth, isJSON, isRaw, sep, quote) ==
  LET res == acc.res
      l == acc.l
      put(bytes, w) == [acc EXCEPT !.res.Buf = res.Buf \o bytes,
                                   !.res.Width = res.Width + w]
      quoted(a) == [a EXCEPT !.res.Quoted = TRUE]
  IN
  IF r = "BAD" THEN
    \* invalid rune decoded
    IF invalid # NilBytes THEN quoted(put(invalid, invalidWidth))
    ELSE IF isJSON THEN put(<<"\\", "u">> \o HexDigits(RuneError, 4), 0)
    ELSE quoted(put(<<"\\", "x">> \o HexDigits(RuneCode(r), 2), 4))
  ELSE IF isJSON /\ r = "BEL" THEN put(<<"\\", "u", "0", "0", "0", "7">>, 6)
  ELSE IF isJSON /\ r = "BS" THEN put(<<"\\", "b">>, 2)
  ELSE IF isJSON /\ r = "FF" THEN put(<<"\\", "f">>, 2)
  ELSE IF isJSON /\ r = "NL" THEN put(<<"\\", "n">>, 2)
  ELSE IF isJSON /\ r = "CR" THEN put(<<"\\", "r">>, 2)
  ELSE IF isJSON /\ r = "TAB" THEN put(<<"\\", "t">>, 2)
  ELSE IF isJSON /\ r = "\"" THEN put(<<"\\", "\"">>, 2)
  ELSE IF isJSON /\ r = "\\" THEN put(<<"\\", "\\">>, 2)
  ELSE IF isRaw THEN
    \* raw encoding: the rune is copied, a quote is doubled
    LET a == put(EncodeRune(r), RuneWidth(r)) IN
    IF r = sep THEN quoted(a)
    ELSE IF r = quote /\ quote # "NUL" THEN
      quoted([a EXCEPT !.res.Buf = a.res.Buf \o EncodeRune(r),
                       !.res.Width = a.res.Width + RuneWidth(r)])
    ELSE [a EXCEPT !.res.Quoted = a.res.Quoted \/ IsSpace(r)]
  ELSE IF IsGraphic(r) THEN put(EncodeRune(r), RuneWidth(r))
  ELSE IF r = "BEL" THEN put(<<"\\", "a">>, 2)
  ELSE IF r = "BS" THEN put(<<"\\", "b">>, 2)
  ELSE IF r = "FF" THEN put(<<"\\", "f">>, 2)
  ELSE IF r = "CR" THEN put(<<"\\", "r">>, 2)
  ELSE IF r = "VT" THEN put(<<"\\", "v">>, 2)
  ELSE IF r = "TAB" THEN
    \* save position
    [acc EXCEPT !.res.Tabs[l + 1] = Append(res.Tabs[l + 1], <<Len(res.Buf), res.Width>>),
                !.res.Buf = Append(res.Buf, "TAB"),
                !.res.Width = 0]
  ELSE IF r = "NL" THEN
    \* save position, increase line count
    [acc EXCEPT !.res.Newlines = Append(res.Newlines, <<Len(res.Buf), res.Width>>),
                !.res.Buf = Append(res.Buf, "NL"),
                !.res.Width = 0,
                !.res.Tabs = Append(res.Tabs, <<>>),
                !.l = l + 1]
  ELSE IF RuneCode(r) < 32 /\ ~isJSON THEN
    put(<<"\\", "x">> \o HexDigits(RuneCode(r), 2), 4)
  ELSE IF RuneCode(r) < 65536 THEN
    put(<<"\\", "u">> \o HexDigits(RuneCode(r), 4), 6)
  ELSE put(<<"\\", "U">> \o HexDigits(RuneCode(r), 8), 10)

RECURSIVE FormatLoop(_, _, _, _, _, _, _, _)
FormatLoop(acc, src, invalid, invalidWidth, isJSON, isRaw, sep, quote) ==
  IF src = <<>> THEN acc
  ELSE FormatLoop(FormatRune(acc, Head(src), invalid, invalidWidth, isJSON, isRaw, sep, quote),
                  Tail(src), invalid, invalidWidth, isJSON, isRaw, sep, quote)

\* FormatBytes parses src, saving escaped and unescaped runes to a Value,
\* along with tab and newline positions in the generated buf
FormatBytes(src, invalid, invalidWidth, isJSON, isRaw, sep, quote) ==
  FormatLoop([res |-> [ZeroValue EXCEPT !.Tabs = <<<<>>>>], l |-> 0],
             src, invalid, invalidWidth, isJSON, isRaw, sep, quote).res

\* tabwidth: the width of a line's tab-terminated segments, from a column offset
RECURSIVE tabwalk(_, _, _)
tabwalk(tabs, width, tab) ==
  IF tabs = <<>> THEN width
  ELSE LET w == width + Head(tabs)[2]
       IN tabwalk(Tail(tabs), w + (tab - (w % tab)), tab)

tabwidth(tabs, offset, tab) == tabwalk(tabs, offset, tab) - offset

\* Value.LineWidth: the width of line l (0-based)
LineWidth(v, l, offset, tab) ==
  (IF l < Len(v.Newlines) THEN v.Newlines[l + 1][2] ELSE 0)
  + (IF Len(v.Tabs[l + 1]) # 0 THEN tabwidth(v.Tabs[l + 1], offset, tab) ELSE 0)
  + (IF l = Len(v.Newlines) THEN v.Width ELSE 0)

RECURSIVE MaxWidthLoop(_, _, _, _, _)
MaxWidthLoop(v, l, width, offset, tab) ==
  IF l >= Len(v.Tabs) THEN width
  ELSE MaxWidthLoop(v, l + 1, Max(width, LineWidth(v, l, offset, tab)), offset, tab)

\* Value.MaxWidth: the width of the longest line of Buf
MaxWidth(v, offset, tab) == MaxWidthLoop(v, 0, v.Width, offset, tab)

\* ------------------------------------------------------------------------
\* EscapeFormatter (fmt.go)
\* ------------------------------------------------------------------------
\* a Go value handed to the formatter: t is its dynamic type, n its number,
\* s its text (for "map": the output of the JSON encoder)
Cell(t, n, s) == [t |-> t, n |-> n, s |-> s]
NullCell == Cell("nil", 0, <<>>)
IntCell(n) == Cell("int", n, <<>>)
StrCell(s) == Cell("str", 0, s)

\* NewEscapeFormatter: the formatter and its defaults
NewEscapeFormatter ==
  [mask |-> <<"%", "d">>, encoder |-> FALSE, isJSON |-> FALSE, isRaw |-> FALSE,
   sep |-> "NUL", quote |-> "NUL", invalid |-> NilBytes, invalidWidth |-> 0,
   headerAlign |-> AlignLeft]

\* strconv.Itoa / fmt.Sprintf("%d")
RECURSIVE Digits(_)
Digits(n) ==
  IF n < 10 THEN <<lowerhex[n + 1]>> ELSE Append(Digits(n \div 10), lowerhex[(n % 10) + 1])

Itoa(n) == IF n < 0 THEN <<"-">> \o Digits(0 - n) ELSE Digits(n)

\* strings.TrimSpace / bytes.TrimSpace
RECURSIVE TrimLeft(_)
TrimLeft(s) == IF s # <<>> /\ IsSpace(Head(s)) THEN TrimLeft(Tail(s)) ELSE s

RECURSIVE TrimRight(_)
TrimRight(s) ==
  IF s # <<>> /\ IsSpace(s[Len(s)]) THEN TrimRight(SubSeq(s, 1, Len(s) - 1)) ELSE s

TrimSpace(s) == TrimRight(TrimLeft(s))

\* EscapeFormatter.Header, for the header at 0-based position i
HeaderValue(f, name, i) ==
  LET t == TrimSpace(name)
      s == IF t = <<>> /\ (\E k \in 1..Len(f.mask) : f.mask[k] = "%") THEN Itoa(i + 1)
           ELSE IF t = <<>> THEN f.mask
           ELSE t
  IN [FormatBytes(s, f.invalid, f.invalidWidth, f.isJSON, f.isRaw, f.sep, f.quote)
        EXCEPT !.Align = f.headerAlign]

Header(f, headers) == [i \in 1..Len(headers) |-> HeaderValue(f, headers[i], i - 1)]

\* EscapeFormatter.Format, for one value
FormatValue(f, val) ==
  CASE val.t = "nil" -> NilValue
    [] val.t = "bool" ->
         newValue(IF val.n = 1 THEN <<"t", "r", "u", "e">> ELSE <<"f", "a", "l", "s", "e">>,
                  AlignLeft, TRUE)
    [] val.t = "int" -> newValue(Itoa(val.n), AlignRight, TRUE)
    [] val.t \in {"str", "bytes"} ->
         FormatBytes(val.s, f.invalid, f.invalidWidth, f.isJSON, f.isRaw, f.sep, f.quote)
    [] val.t = "time" -> newValue(val.s, AlignLeft, FALSE)
    [] val.t = "map" ->
         IF f.encoder THEN [ZeroValue EXCEPT !.Buf = val.s, !.Raw = TRUE]
         ELSE IF f.isJSON THEN [ZeroValue EXCEPT !.Buf = TrimSpace(val.s), !.Raw = TRUE]
         ELSE [FormatBytes(TrimSpace(val.s), f.invalid, f.invalidWidth, FALSE, f.isRaw, f.sep, f.quote)
                 EXCEPT !.Raw = TRUE]

Format(f, vals) == [i \in 1..Len(vals) |-> FormatValue(f, vals[i])]

\* ------------------------------------------------------------------------
\* State
\* ------------------------------------------------------------------------
VARIABLES
  \* formatting one value: position, the formatter, the value handed in,
  \* the Value returned, and the offset, tab size and result of MaxWidth
  fpc, ff, fin, fval, foff, ftab, fmw,
  \* building and reading a crosstab view: position, the source rows, whether
  \* a sort column was given, the number of source rows read, and the fields
  \* vkeys, hkeys, vals, err and pos of the CrosstabView; vout holds the rows
  \* that reading the view has scanned
  vpc, vsrc, vsorted, vread, vkeys, hkeys, vvals, verr, vpos, vout,
  \* NewCrosstabView: the column names and the rows of the result set the
  \* view is made of, the fields v, h, d and s of the view as the options
  \* set them, and the indexes build resolves them to; vsrc holds, for each
  \* row, the cells at these indexes
  vcols, vraw, vparams, vidx,
  \* TableEncoder.Encode: position, the column names and the rows of the
  \* result set, the options count, border, widths and minExpandWidth, the
  \* number of rows the result set has handed out, valsBuffer (the rows by
  \* their position in the result set), scanCount, maxWidths, offsets,
  \* wroteHeader and the lines written; eprev is maxWidths as the batch
  \* before left it and ebatches the number of batches measured
  epc, ecols, erows, ecount, eborder, ewidths, eminExpand, epos, evals, escan,
  emaxWidths, eoffsets, ewroteHeader, eout, eprev, ebatches,
  \* EncodeAll: the encoder (a TableEncoder or an ExpandedEncoder), how the
  \* result set fails, the error returned, the calls of Next made on the
  \* result set, the result sets after this one, what has reached the writer
  \* handed in, the keys of the summary map, the header alignment of the
  \* formatter and the one enc.headers were made with
  ekind, efail, eerr, enext, esets, esink, esummary, efalign, ehalign,
  \* Encode and EncodeAll with a map of options: position, the map, which of
  \* the two is called, the Builder and the Options FromMap returns, the
  \* Encoder and the error the Builder returns, the error returned to the
  \* caller and whether the writer was written to
  opc, oopts, ocall, obuilder, ooptions, oenc, oberr, oerr, owrote,
  \* Encode and its writers: position, the encoder's options and the result
  \* set, enc.w and exp.w with the writer and the pager pipe under them,
  \* whether the pager runs (cmd), scanCount, the number and the rows of the
  \* batch, the row of the batch encodeVals is at, the layout of the batch,
  \* wroteHeader, the error returned, and the rows written since a write to
  \* the writer first failed
  ppc, pcfg, pio, pcmd, pscan, pbatch, pnb, pi, playout, pwroteHeader, perr, psince

fvars == <<fpc, ff, fin, fval, foff, ftab, fmw>>

vvars == <<vpc, vsrc, vsorted, vread, vkeys, hkeys, vvals, verr, vpos, vout,
           vcols, vraw, vparams, vidx>>

evars == <<epc, ecols, erows, ecount, eborder, ewidths, eminExpand, epos, evals, escan,
           emaxWidths, eoffsets, ewroteHeader, eout, eprev, ebatches,
           ekind, efail, eerr, enext, esets, esink, esummary, efalign, ehalign>>

ovars == <<opc, oopts, ocall, obuilder, ooptions, oenc, oberr, oerr, owrote>>

pvars == <<ppc, pcfg, pio, pcmd, pscan, pbatch, pnb, pi, playout, pwroteHeader, perr, psince>>

vars == <<fvars, vvars, evars, ovars, pvars>>

\* ------------------------------------------------------------------------
\* Formatting and measuring a value (EscapeFormatter, Value.MaxWidth)
\* ------------------------------------------------------------------------
RECURSIVE SeqsUpTo(_, _)
SeqsUpTo(S, n) ==
  IF n = 0 THEN {<<>>}
  ELSE LET shorter == SeqsUpTo(S, n - 1)
       IN shorter \cup {Append(s, x) : s \in {t \in shorter : Len(t) = n - 1}, x \in S}

\* the runes of the texts that are formatted
FormatRunes == {"a", "WIDE", "TAB", "NL", "CR", "BAD"}

Texts == SeqsUpTo(FormatRunes, MaxLen)

\* the formatter configurations: the default one, WithInvalid("?"),
\* WithIsJSON(true), WithEncoder(...)
Formatters ==
  { NewEscapeFormatter,
    [NewEscapeFormatter EXCEPT !.invalid = <<"?">>, !.invalidWidth = 1],
    [NewEscapeFormatter EXCEPT !.isJSON = TRUE],
    [NewEscapeFormatter EXCEPT !.encoder = TRUE] }

\* the output of the JSON encoder for a map value: {"a":1} indented
EncodedMap == <<"{", "NL", " ", " ", "\"", "a", "\"", ":", " ", "1", "NL", "}", "NL">>

FormatInputs ==
  {StrCell(s) : s \in Texts}
    \cup {Cell("header", i, s) : i \in 0..1, s \in Texts}
    \cup {IntCell(n) : n \in {0 - 3, 0, 7, 12}}
    \cup {Cell("bool", b, <<>>) : b \in 0..1}
    \cup {Cell("time", 0, <<"1", "2", ":", "0", "0">>), Cell("map", 0, EncodedMap), NullCell}

\* the zero value of an Encoder interface
NilEncoder == [kind |-> "nil", err |-> "", applied |-> <<>>]

OptsIdle ==
  /\ opc = "idle" /\ oopts = <<>> /\ ocall = "Encode" /\ obuilder = "" /\ ooptions = <<>>
  /\ oenc = NilEncoder /\ oberr = "" /\ oerr = "" /\ owrote = FALSE

\* bufio.NewWriterSize(w, 2048): the writer under it (the writer handed to
\* Encode, "sink", or the pipe of the pager, "pipe"), the bytes buffered
\* and the error it keeps
NewWriterSize(dst) == [dst |-> dst, n |-> 0, err |-> ""]

\* a writer under a bufio.Writer: the Write calls made on it, the bytes it
\* took, and the number of Write calls that succeed before every call fails
\* (Never for a writer that does not fail)
Never == 0 - 1

Under(ok) == [writes |-> 0, bytes |-> 0, ok |-> ok]

\* what Encode writes to: enc.w and exp.w, which of the two the batch
\* writes to, the two writers under them, and the bytes written before and
\* after the pager was started
NewIO(sinkOk, pipeOk) ==
  [enc |-> NewWriterSize("sink"), exp |-> NewWriterSize("sink"), cur |-> "enc",
   sink |-> Under(sinkOk), pipe |-> Under(pipeOk), before |-> 0, after |-> 0]

PagerIdle ==
  /\ ppc = "idle" /\ pcfg = <<>> /\ pio = NewIO(Never, Never) /\ pcmd = FALSE
  /\ pscan = 0 /\ pbatch = 0 /\ pnb = 0 /\ pi = 0 /\ playout = "table"
  /\ pwroteHeader = FALSE /\ perr = "" /\ psince = 0

FormatIdle ==
  /\ fpc = "idle" /\ ff = NewEscapeFormatter /\ fin = NullCell /\ fval = NilValue
  /\ foff = 0 /\ ftab = 1 /\ fmw = 0

EncIdle ==
  /\ epc = "idle" /\ ecols = <<>> /\ erows = <<>> /\ ecount = 0 /\ eborder = 1
  /\ ewidths = <<>> /\ eminExpand = 0 /\ epos = 0 /\ evals = <<>> /\ escan = 0
  /\ emaxWidths = <<>> /\ eoffsets = <<>> /\ ewroteHeader = FALSE /\ eout = <<>>
  /\ eprev = <<>> /\ ebatches = 0
  /\ ekind = "table" /\ efail = [kind |-> "none", at |-> 0] /\ eerr = "" /\ enext = 0
  /\ esets = <<>> /\ esink = <<>> /\ esummary = [nil |-> TRUE, keys |-> {}]
  /\ efalign = 0 /\ ehalign = 0

ViewIdle ==
  /\ vpc = "idle" /\ vsrc = <<>> /\ vsorted = FALSE /\ vread = 0
  /\ vkeys = <<>> /\ hkeys = <<>> /\ vvals = <<>> /\ verr = "" /\ vpos = 0 - 1
  /\ vout = <<>>
  /\ vcols = <<>> /\ vraw = <<>>
  /\ vparams = [v |-> <<>>, h |-> <<>>, d |-> <<>>, s |-> <<>>]
  /\ vidx = [v |-> 0 - 1, h |-> 0 - 1, d |-> 0 - 1, s |-> 0 - 1]

FormatInit ==
  /\ ViewIdle /\ EncIdle /\ OptsIdle /\ PagerIdle
  /\ fpc = "input"
  /\ ff \in Formatters
  /\ fin \in FormatInputs
  /\ fval = NilValue
  /\ foff = 0 /\ ftab = 1 /\ fmw = 0

\* EscapeFormatter.Format on one value
DoFormat ==
  /\ fpc = "input" /\ fin.t # "header"
  /\ fval' = Format(ff, <<fin>>)[1]
  /\ fpc' = "formatted"
  /\ UNCHANGED <<ff, fin, foff, ftab, fmw, vvars, evars, ovars, pvars>>

\* EscapeFormatter.Header on one column name, at position fin.n
DoHeader ==
  /\ fpc = "input" /\ fin.t = "header"
  /\ fval' = HeaderValue(ff, fin.s, fin.n)
  /\ fpc' = "formatted"
  /\ UNCHANGED <<ff, fin, foff, ftab, fmw, vvars, evars, ovars, pvars>>

\* Value.MaxWidth(offset, tab)
DoMaxWidth ==
  /\ fpc = "formatted" /\ fval # NilValue
  /\ \E offset \in 0..MaxOffset, tab \in 1..MaxTab :
       /\ foff' = offset /\ ftab' = tab
       /\ fmw' = MaxWidth(fval, offset, tab)
  /\ fpc' = "measured"
  /\ UNCHANGED <<ff, fin, fval, vvars, evars, ovars, pvars>>

FormatNext == DoFormat \/ DoHeader \/ DoMaxWidth

SpecFormat == FormatInit /\ [][FormatNext]_vars

\* the formatters FromMap makes for the formats csv and unaligned, with the
\* field separator ",": NewEscapeFormatter(WithIsRaw(true, sep, quote))
RawFormatters ==
  { [NewEscapeFormatter EXCEPT !.isRaw = TRUE, !.sep = ",", !.quote = "\""],
    [NewEscapeFormatter EXCEPT !.isRaw = TRUE, !.sep = ",", !.quote = "NUL"] }

\* the runes of the texts that are formatted raw
RawRunes == {"a", ",", "\"", "NL", "CR", "WIDE", "TAG", "BAD"}

RawInputs ==
  {StrCell(t) : t \in SeqsUpTo(RawRunes, MaxLen)}
    \cup {Cell("header", 0, t) : t \in SeqsUpTo({"a", ",", "\""}, MaxLen)}

RawInit ==
  /\ ViewIdle /\ EncIdle /\ OptsIdle /\ PagerIdle
  /\ fpc = "input"
  /\ ff \in RawFormatters
  /\ fin \in RawInputs
  /\ fval = NilValue
  /\ foff = 0 /\ ftab = 1 /\ fmw = 0

SpecRaw == RawInit /\ [][FormatNext]_vars

\* UnalignedEncoder.Encode: the bytes written for the value v of a field
unalignedField(v, quote) ==
  IF quote # "NUL" /\ v.Quoted THEN <<quote>> \o v.Buf \o <<quote>> ELSE v.Buf

\* terminal cells a byte of a rendered buffer takes (tabs apart): the first
\* byte of a rune carries the width of the rune
ByteWidth(b) ==
  IF b = "w1" THEN 2
  ELSE IF b \in {"w2", "w3", "SOH", "BEL", "BS", "NL", "VT", "FF", "CR",
                 "c2", "85", "a0", "80", "81"} THEN 0
  ELSE 1

\* the column reached after writing buf from column col, tabs going to the
\* next multiple of tab
RECURSIVE RenderCol(_, _, _)
RenderCol(buf, col, tab) ==
  IF buf = <<>> THEN col
  ELSE RenderCol(Tail(buf),
                 IF Head(buf) = "TAB" THEN col + (tab - (col % tab)) ELSE col + ByteWidth(Head(buf)),
                 tab)

\* the bytes of physical line l (0-based) of a Value, as delimited by Newlines
LineBytes(v, l) ==
  LET start == IF l > 0 THEN v.Newlines[l][1] + 1 ELSE 0
      end == IF l < Len(v.Newlines) THEN v.Newlines[l + 1][1] ELSE Len(v.Buf)
  IN SubSeq(v.Buf, start + 1, end)

RenderedWidth(v, l, offset, tab) == RenderCol(LineBytes(v, l), offset, tab) - offset

SetMax(S) == CHOOSE x \in S : \A y \in S : x >= y

RenderedMaxWidth(v, offset, tab) ==
  SetMax({RenderedWidth(v, l, offset, tab) : l \in 0..Len(v.Newlines)})

\* C2: MaxWidth(offset, tab) is the width of the widest physical line of the
\* Value as it renders, tabs expanded to the next tab stop from the offset.
C2_MaxWidthIsRenderedWidth ==
  fpc = "measured" => fmw = RenderedMaxWidth(fval, foff, ftab)

\* C10: every non-nil Value of Header and Format has one tab list per
\* physical line, len(Tabs) = len(Newlines) + 1.
C10_TabsPerLine ==
  (fpc \in {"formatted", "measured"} /\ fval # NilValue)
    => Len(fval.Tabs) = Len(fval.Newlines) + 1

\* ------------------------------------------------------------------------
\* CrosstabView (view.go)
\* ------------------------------------------------------------------------
MaxViewRows == 3

\* sort.Slice sorts up to maxInsertion elements by insertion
maxInsertion == 12

ErrCrosstabResultMustHaveAtLeast3Columns == "crosstab result must have at least 3 columns"
ErrCrosstabDataColumnMustBeSpecifiedWhenQueryReturnsMoreThanThreeColumns ==
  "data column must be specified when query returns more than three columns"
ErrCrosstabVerticalAndHorizontalColumnsMustNotBeSame ==
  "crosstab vertical and horizontal columns must not be same"
ErrCrosstabVerticalColumnNotInResult == "crosstab vertical column not in result"
ErrCrosstabHorizontalColumnNotInResult == "crosstab horizontal column not in result"
ErrCrosstabDataColumnNotInResult == "crosstab data column not in result"
ErrCrosstabHorizontalSortColumnNotInResult == "crosstab horizontal sort column not in result"
ErrCrosstabDuplicateVerticalAndHorizontalValue == "crosstab duplicate vertical and horizontal value"
ErrCrosstabHorizontalSortColumnIsNotANumber == "crosstab horizontal sort column is not a number"

\* the formatter of the view: NewEscapeFormatter(WithIsRaw(true, 0, 0))
ViewFormatter == [NewEscapeFormatter EXCEPT !.isRaw = TRUE]

\* Value.String
String(v) == v.Buf

DigitVal(c) == CHOOSE d \in 0..9 : lowerhex[d + 1] = c

RECURSIVE ParseDigits(_, _)
ParseDigits(s, acc) ==
  IF s = <<>> THEN acc ELSE ParseDigits(Tail(s), 10 * acc + DigitVal(Head(s)))

\* strconv.Atoi: [ok, n]
Atoi(s) ==
  LET signed == s # <<>> /\ Head(s) \in {"+", "-"}
      digits == IF signed THEN Tail(s) ELSE s
      ok == digits # <<>> /\ \A i \in 1..Len(digits) : digits[i] \in {lowerhex[d] : d \in 1..10}
      n == IF ok THEN ParseDigits(digits, 0) ELSE 0
  IN [ok |-> ok, n |-> IF signed /\ Head(s) = "-" THEN 0 - n ELSE n]

\* vkeyAppend: appends k to v unless k is in v
vkeyAppend(v, k) ==
  IF \E i \in 1..Len(v) : v[i] = k THEN v ELSE Append(v, k)

\* hkeyAppend that appends a key that is already there
hkeyAppend_always(v, k) == Append(v, k)

\* hkeyAppend: appends k to v unless a key with k.v is in v
hkeyAppend(v, k) ==
  IF \E i \in 1..Len(v) : v[i].v = k.v THEN v ELSE Append(v, k)

EmptyVals == [p \in {} |-> NullCell]

\* add that stores the data of a pair it has already stored
add_overwrite(view, d, v, h, s) ==
  LET sval == IF s # NilValue THEN Atoi(String(s)) ELSE [ok |-> TRUE, n |-> 0]
      vk == String(v)
      hk == String(h)
      keyed == [view EXCEPT !.vkeys = vkeyAppend(view.vkeys, vk),
                            !.hkeys = hkeyAppend(view.hkeys, [v |-> hk, s |-> sval.n])]
      rest == [p \in DOMAIN view.vals \ {<<vk, hk>>} |-> view.vals[p]]
  IN IF ~sval.ok THEN [view EXCEPT !.err = ErrCrosstabHorizontalSortColumnIsNotANumber]
     ELSE [keyed EXCEPT !.vals = rest @@ (<<vk, hk>> :> d)]

\* CrosstabView.add on the formatted keys v, h, the sort value s (NilValue
\* without a sort column) and the data d: the fields after it, and the error
add(view, d, v, h, s) ==
  LET sval == IF s # NilValue THEN Atoi(String(s)) ELSE [ok |-> TRUE, n |-> 0]
      vk == String(v)
      hk == String(h)
      keyed == [view EXCEPT !.vkeys = vkeyAppend(view.vkeys, vk),
                            !.hkeys = hkeyAppend(view.hkeys, [v |-> hk, s |-> sval.n])]
  IN IF ~sval.ok THEN [view EXCEPT !.err = ErrCrosstabHorizontalSortColumnIsNotANumber]
     ELSE IF <<vk, hk>> \in DOMAIN view.vals
       THEN [keyed EXCEPT !.err = ErrCrosstabDuplicateVerticalAndHorizontalValue]
     ELSE [keyed EXCEPT !.vals = view.vals @@ (<<vk, hk>> :> d)]

\* the less function build hands to sort.Slice
hkeyLess(x, y) == x.s < y.s

Swap(data, i, j) == [data EXCEPT ![i + 1] = data[j + 1], ![j + 1] = data[i + 1]]

\* insertionSort_func on data[a:b]
RECURSIVE insertDown(_, _, _)
insertDown(data, a, j) ==
  IF j > a /\ hkeyLess(data[j + 1], data[j]) THEN insertDown(Swap(data, j, j - 1), a, j - 1)
  ELSE data

RECURSIVE insertionSort(_, _, _, _)
insertionSort(data, a, b, i) ==
  IF i < b THEN insertionSort(insertDown(data, a, i), a, b, i + 1) ELSE data

\* order2_func: the two indexes in order, and whether they were swapped
order2(data, a, b) ==
  IF hkeyLess(data[b + 1], data[a + 1]) THEN <<b, a, 1>> ELSE <<a, b, 0>>

\* choosePivot_func for 8 <= b - a < 50: the median of three, and the hint
choosePivot(data, a, b) ==
  LET l == b - a
      i == a + (l \div 4) * 1
      j == a + (l \div 4) * 2
      k == a + (l \div 4) * 3
      o1 == order2(data, i, j)
      o2 == order2(data, o1[2], k)
      o3 == order2(data, o1[1], o2[1])
  IN [pivot |-> o3[2], increasing |-> o1[3] + o2[3] + o3[3] = 0]

RECURSIVE scanUp(_, _, _, _)
scanUp(data, i, j, a) ==
  IF i <= j /\ hkeyLess(data[i + 1], data[a + 1]) THEN scanUp(data, i + 1, j, a) ELSE i

RECURSIVE scanDown(_, _, _, _)
scanDown(data, i, j, a) ==
  IF i <= j /\ ~hkeyLess(data[j + 1], data[a + 1]) THEN scanDown(data, i, j - 1, a) ELSE j

RECURSIVE partitionLoop(_, _, _, _)
partitionLoop(data, i, j, a) ==
  LET i2 == scanUp(data, i, j, a)
      j2 == scanDown(data, i2, j, a)
  IN IF i2 > j2 THEN [data |-> Swap(data, j2, a), mid |-> j2]
     ELSE partitionLoop(Swap(data, i2, j2), i2 + 1, j2 - 1, a)

\* partition_func: data[a:b] partitioned around data[pivot], and where it went
partition(data, a, b, pivot) ==
  partitionLoop(Swap(data, a, pivot), a + 1, b - 1, a)

\* sort.Slice (pdqsort_func) for the lengths of the model, up to
\* maxInsertion + 1: insertion sort up to maxInsertion elements; above, the
\* slice is returned as it is when it is found sorted, and otherwise
\* partitioned once, both sides sorted by insertion
sortSlice(data) ==
  LET n == Len(data)
      sorted == \A i \in 1..(n - 1) : ~hkeyLess(data[i + 1], data[i])
      cp == choosePivot(data, 0, n)
      pt == partition(data, 0, n, cp.pivot)
  IN IF n <= maxInsertion THEN insertionSort(data, 0, n, 1)
     ELSE IF sorted THEN data
     ELSE insertionSort(insertionSort(pt.data, 0, pt.mid, 1), pt.mid + 1, n, pt.mid + 2)

\* the fold of a rune under which strings.EqualFold compares: a capital
\* letter is its small letter, and the other runes of the model have no
\* other case
SimpleFold(c) ==
  LET upper == <<"A", "B", "C", "D", "E", "F", "G", "H", "I", "J", "K", "L", "M",
                 "N", "O", "P", "Q", "R", "S", "T", "U", "V", "W", "X", "Y", "Z">>
      lower == <<"a", "b", "c", "d", "e", "f", "g", "h", "i", "j", "k", "l", "m",
                 "n", "o", "p", "q", "r", "s", "t", "u", "v", "w", "x", "y", "z">>
      at == {i \in 1..Len(upper) : upper[i] = c}
  IN IF at = {} THEN c ELSE lower[CHOOSE i \in at : TRUE]

\* strings.EqualFold

EqualFold(s, t) ==
  Len(s) = Len(t) /\ \A i \in 1..Len(s) : SimpleFold(s[i]) = SimpleFold(t[i])

\* indexOf: the 0-based index of s in v, s a 1-based number or a name
indexOf(v, s) ==
  LET t == TrimSpace(s)
      i == Atoi(t).n - 1
      named == {k \in 1..Len(v) : EqualFold(t, TrimSpace(v[k]))}
  IN IF Atoi(t).ok THEN (IF i >= 0 /\ i < Len(v) THEN i ELSE 0 - 1)
     ELSE IF named = {} THEN 0 - 1
     ELSE (CHOOSE k \in named : \A j \in named : k <= j) - 1

\* findIndex: the index of s in v, i when s is empty
findIndex(v, s, i) ==
  IF s = <<>> THEN (IF i < Len(v) THEN i ELSE 0 - 1) ELSE indexOf(v, s)

\* build that takes the third column for the data when none is named
ddef_third(vindex, hindex) == 2

\* build: the default of the data column when none is named, the last of
\* the first three columns that is neither vindex nor hindex
ddef(vindex, hindex) ==
  LET unused == {i \in 0..2 : i \notin {vindex, hindex}}
  IN IF unused = {} THEN 2 ELSE CHOOSE i \in unused : \A j \in unused : j <= i

\* NewCrosstabView and build, up to the loop over the rows: the error, ""
\* for none, and the indexes of the vertical, horizontal, data and sort
\* columns (-1 for no sort column)
resolve(cols, p) ==
  LET vindex == findIndex(cols, p.v, 0)
      hindex == findIndex(cols, p.h, 1)
      dindex == findIndex(cols, p.d, IF p.d = <<>> THEN ddef(vindex, hindex) ELSE 2)
      sindex == IF p.s # <<>> THEN indexOf(cols, p.s) ELSE 0 - 1
      err == IF p.v # <<>> /\ p.h # <<>> /\ p.v = p.h
               THEN ErrCrosstabVerticalAndHorizontalColumnsMustNotBeSame
             ELSE IF Len(cols) < 3 THEN ErrCrosstabResultMustHaveAtLeast3Columns
             ELSE IF Len(cols) > 3 /\ p.d = <<>>
               THEN ErrCrosstabDataColumnMustBeSpecifiedWhenQueryReturnsMoreThanThreeColumns
             ELSE IF vindex = 0 - 1 THEN ErrCrosstabVerticalColumnNotInResult
             ELSE IF hindex = 0 - 1 THEN ErrCrosstabHorizontalColumnNotInResult
             ELSE IF dindex = 0 - 1 THEN ErrCrosstabDataColumnNotInResult
             ELSE IF p.s # <<>> /\ sindex = 0 - 1
               THEN ErrCrosstabHorizontalSortColumnNotInResult
             ELSE ""
  IN [err |-> err, v |-> vindex, h |-> hindex, d |-> dindex, s |-> sindex]

\* build: the cells of a scanned row that go to Format and add
Picked(row, idx) ==
  [v |-> row[idx.v + 1], h |-> row[idx.h + 1], d |-> row[idx.d + 1],
   s |-> IF idx.s = 0 - 1 THEN NullCell ELSE row[idx.s + 1]]

\* CrosstabView.Columns: the vertical column's name, then the horizontal keys
VerticalName == <<"v">>

Columns == <<vcols[vidx.v + 1]>> \o [i \in 1..Len(hkeys) |-> hkeys[i].v]

\* Scan that leaves the data of the row before in a slot without data
Scan_stale(pos) ==
  LET vkey == vkeys[pos + 1]
      before == vkeys[IF pos = 0 THEN 1 ELSE pos]
      at(k, i) == <<k, hkeys[i].v>>
  IN <<StrCell(vkey)>> \o
     [i \in 1..Len(hkeys) |->
        IF at(vkey, i) \in DOMAIN vvals THEN vvals[at(vkey, i)]
        ELSE IF at(before, i) \in DOMAIN vvals THEN vvals[at(before, i)] ELSE NullCell]

\* CrosstabView.Scan into len(Columns()) slots, at the row of pos
Scan(pos) ==
  LET vkey == vkeys[pos + 1]
  IN <<StrCell(vkey)>> \o
     [i \in 1..Len(hkeys) |->
        IF <<vkey, hkeys[i].v>> \in DOMAIN vvals THEN vvals[<<vkey, hkeys[i].v>>] ELSE NullCell]

\* the source rows of the model: the key cells of a row, its sort cell, and
\* its data, which is the number of the row, or NULL
KeyCells ==
  { <<StrCell(<<"a">>), StrCell(<<"1">>)>>, <<StrCell(<<"a">>), IntCell(1)>>,
    <<StrCell(<<"a">>), StrCell(<<"2">>)>>, <<StrCell(<<"b">>), StrCell(<<"1">>)>>,
    <<StrCell(<<"b">>), StrCell(<<"2">>)>> }

NullKeyCells == { <<NullCell, StrCell(<<"1">>)>>, <<StrCell(<<"a">>), NullCell>> }

RowKind(k, s, dnull) == [v |-> k[1], h |-> k[2], s |-> s, dnull |-> dnull]

RowKinds(sorted) ==
  IF sorted
  THEN {RowKind(k, s, FALSE) : k \in KeyCells, s \in {IntCell(1), IntCell(2), StrCell(<<"x">>)}}
         \cup {RowKind(k, IntCell(1), FALSE) : k \in NullKeyCells}
         \cup {RowKind(<<StrCell(<<"a">>), StrCell(<<"1">>)>>, NullCell, FALSE),
               RowKind(<<StrCell(<<"a">>), StrCell(<<"1">>)>>, IntCell(1), TRUE)}
  ELSE {RowKind(k, NullCell, FALSE) : k \in KeyCells \cup NullKeyCells}
         \cup {RowKind(<<StrCell(<<"a">>), StrCell(<<"1">>)>>, NullCell, TRUE)}

SourceOf(kinds) ==
  [i \in 1..Len(kinds) |->
     [v |-> kinds[i].v, h |-> kinds[i].h, s |-> kinds[i].s,
      d |-> IF kinds[i].dnull THEN NullCell ELSE IntCell(i)]]

\* maxInsertion + 1 rows with distinct horizontal keys and the same sort
\* value, but for the row at position low, which has a smaller one
LongSource(low) ==
  [i \in 1..(maxInsertion + 1) |->
     [v |-> StrCell(<<"a">>), h |-> IntCell(i - 1),
      s |-> IF i = low THEN IntCell(0) ELSE IntCell(1), d |-> IntCell(i)]]

\* the result set of source rows: the columns v, h and d, and s when there
\* is a sort column
SourceColumns(sorted) ==
  <<VerticalName, <<"h">>, <<"d">>>> \o (IF sorted THEN <<<<"s">>>> ELSE <<>>)

RawOf(src, sorted) ==
  [i \in 1..Len(src) |->
     <<src[i].v, src[i].h, src[i].d>> \o (IF sorted THEN <<src[i].s>> ELSE <<>>)]

\* the state of a view before NewCrosstabView builds it
ViewNew ==
  /\ FormatIdle /\ EncIdle /\ OptsIdle /\ PagerIdle
  /\ vpc = "new"
  /\ vsorted = (vparams.s # <<>>)
  /\ vsrc = <<>> /\ vidx = [v |-> 0 - 1, h |-> 0 - 1, d |-> 0 - 1, s |-> 0 - 1]
  /\ vread = 0 /\ vkeys = <<>> /\ hkeys = <<>> /\ vvals = EmptyVals /\ verr = ""
  /\ vpos = 0 - 1 /\ vout = <<>>

\* views of the columns v, h, d with the default parameters, and of v, h,
\* d, s with the data and sort columns named
ViewInit ==
  /\ \E sorted \in BOOLEAN :
       /\ vcols = SourceColumns(sorted)
       /\ vparams = [v |-> <<>>, h |-> <<>>,
                     d |-> IF sorted THEN <<"d">> ELSE <<>>,
                     s |-> IF sorted THEN <<"s">> ELSE <<>>]
       /\ \/ vraw \in {RawOf(SourceOf(k), sorted) : k \in SeqsUpTo(RowKinds(sorted), MaxViewRows)}
          \/ sorted /\ vraw \in {RawOf(LongSource(low), sorted) : low \in 1..(maxInsertion + 1)}
  /\ ViewNew

\* the parameters of the model: empty, names as the columns have them, in
\* another letter case and with spaces, numbers, and a name no column has
ParamTexts ==
  [v |-> {<<>>, <<"v">>, <<"V">>, <<"1">>, <<"2">>, <<"3">>, <<" ", "h">>, <<"x">>},
   h |-> {<<>>, <<"h">>, <<"v">>, <<"V">>, <<"1">>, <<"2">>},
   d |-> {<<>>, <<"d">>, <<"3">>, <<"1">>},
   s |-> {<<>>, <<"s">>, <<"4">>, <<"0">>}]

AllColumns == <<VerticalName, <<"h">>, <<"d">>, <<"s">>>>

ParamRows ==
  << <<StrCell(<<"a">>), StrCell(<<"1">>), IntCell(1), IntCell(2)>>,
     <<StrCell(<<"b">>), StrCell(<<"2">>), IntCell(2), IntCell(1)>> >>

\* views of two to four columns with every choice of the parameters
ResolveInit ==
  /\ vcols \in {SubSeq(AllColumns, 1, n) : n \in 2..4}
  /\ vparams \in [v : ParamTexts.v, h : ParamTexts.h, d : ParamTexts.d, s : ParamTexts.s]
  /\ \E n \in 0..Len(ParamRows) :
       vraw = [i \in 1..n |-> SubSeq(ParamRows[i], 1, Len(vcols))]
  /\ ViewNew

\* NewCrosstabView and build, up to the loop over the rows
Resolve ==
  /\ vpc = "new"
  /\ LET r == resolve(vcols, vparams)
     IN IF r.err # ""
        THEN vpc' = "failed" /\ verr' = r.err /\ UNCHANGED <<vidx, vsrc>>
        ELSE /\ vpc' = "build" /\ UNCHANGED verr
             /\ vidx' = [v |-> r.v, h |-> r.h, d |-> r.d, s |-> r.s]
             /\ vsrc' = [i \in 1..Len(vraw) |-> Picked(vraw[i], r)]
  /\ UNCHANGED <<vsorted, vread, vkeys, hkeys, vvals, vpos, vout,
                 vcols, vraw, vparams, fvars, evars, ovars, pvars>>

\* build: one turn of the loop over the source rows (Next, Scan, Format, add)
BuildRow ==
  /\ vpc = "build" /\ vread < Len(vsrc)
  /\ LET row == vsrc[vread + 1]
         v == Format(ViewFormatter,
                     <<row.v, row.h>> \o (IF vsorted THEN <<row.s>> ELSE <<>>))
         s == IF vsorted THEN v[3] ELSE NilValue
     IN IF (s = NilValue \/ Atoi(String(s)).ok) /\ (v[1] = NilValue \/ v[2] = NilValue)
        THEN \* v.String() or h.String() on a nil *Value
             /\ vpc' = "crashed"
             /\ UNCHANGED <<vkeys, hkeys, vvals, verr>>
        ELSE LET r == add([vkeys |-> vkeys, hkeys |-> hkeys, vals |-> vvals, err |-> verr],
                          row.d, v[1], v[2], s)
             IN /\ vkeys' = r.vkeys /\ hkeys' = r.hkeys /\ vvals' = r.vals /\ verr' = r.err
                /\ vpc' = IF r.err # "" THEN "failed" ELSE "build"
  /\ vread' = vread + 1
  /\ UNCHANGED <<vsrc, vsorted, vpos, vout, vcols, vraw, vparams, vidx, fvars, evars, ovars, pvars>>

\* build: the source is exhausted, the horizontal keys are sorted
BuildDone ==
  /\ vpc = "build" /\ vread = Len(vsrc)
  /\ hkeys' = IF vsorted THEN sortSlice(hkeys) ELSE hkeys
  /\ vpc' = "built"
  /\ UNCHANGED <<vsrc, vsorted, vread, vkeys, vvals, verr, vpos, vout,
                 vcols, vraw, vparams, vidx, fvars, evars, ovars, pvars>>

\* reading the view: Next, and Scan when it returned true
ViewNext ==
  /\ vpc = "built" /\ verr = ""
  /\ vpos' = vpos + 1
  /\ IF vpos + 1 < Len(vkeys)
     THEN vout' = Append(vout, Scan(vpos + 1)) /\ vpc' = vpc
     ELSE vout' = vout /\ vpc' = "done"
  /\ UNCHANGED <<vsrc, vsorted, vread, vkeys, hkeys, vvals, verr,
                 vcols, vraw, vparams, vidx, fvars, evars, ovars, pvars>>

ViewNextStep == Resolve \/ BuildRow \/ BuildDone \/ ViewNext

SpecView == ViewInit /\ [][ViewNextStep]_vars

SpecResolve == ResolveInit /\ [][ViewNextStep]_vars

\* --- what the source rows say, read off the source and not off the view ---
KeyOf(cell) == String(FormatValue(ViewFormatter, cell))

KeyPair(row) == <<KeyOf(row.v), KeyOf(row.h)>>

NullKey(row) == row.v = NullCell \/ row.h = NullCell

\* the sort cell of the row is there and is not an integer
BadSort(row) == vsorted /\ row.s # NullCell /\ ~Atoi(KeyOf(row.s)).ok

\* the key cells of a row as the source has them: NULL, or the text of the key
SourceKey(cell) == IF cell = NullCell THEN <<FALSE, <<>>>> ELSE <<TRUE, KeyOf(cell)>>

SourcePair(row) == <<SourceKey(row.v), SourceKey(row.h)>>

\* row j repeats the keys of an earlier row
Repeats(j) == \E i \in 1..(j - 1) : SourcePair(vsrc[i]) = SourcePair(vsrc[j])

HasDuplicate == \E j \in 1..Len(vsrc) : Repeats(j)

\* the row at which the build stops early, 0 when there is none
Stops(j) == BadSort(vsrc[j]) \/ NullKey(vsrc[j]) \/ Repeats(j)

FirstStop ==
  IF \E j \in 1..Len(vsrc) : Stops(j)
  THEN CHOOSE j \in 1..Len(vsrc) : Stops(j) /\ \A i \in 1..(j - 1) : ~Stops(i)
  ELSE 0

BuildReturned == vpc \in {"failed", "built", "done"}

BuildEnded == vpc \in {"failed", "crashed", "built", "done"}

BuildSucceeded == vpc \in {"built", "done"}

\* C3 as stated: with two source rows of the same (vertical key, horizontal
\* key) pair NewCrosstabView fails with
\* ErrCrosstabDuplicateVerticalAndHorizontalValue.
C3_DuplicateGivesDuplicateError ==
  (BuildReturned /\ HasDuplicate)
    => (vpc = "failed" /\ verr = ErrCrosstabDuplicateVerticalAndHorizontalValue)

\* a stored data value is never replaced or removed
ValsKept == \A p \in DOMAIN vvals : p \in DOMAIN vvals' /\ vvals'[p] = vvals[p]

\* C3, amended: with two source rows of the same pair NewCrosstabView never
\* returns a view and never overwrites a stored data value; it stops at the
\* first row that has a non-integer sort cell (not-a-number error), a NULL
\* key (crash) or the keys of an earlier row (duplicate error).
C3_DuplicateNeverOverwrites ==
  /\ [](  (BuildEnded /\ HasDuplicate)
       => /\ ~BuildSucceeded
          /\ vread = FirstStop
          /\ IF BadSort(vsrc[FirstStop])
             THEN vpc = "failed" /\ verr = ErrCrosstabHorizontalSortColumnIsNotANumber
             ELSE IF NullKey(vsrc[FirstStop]) THEN vpc = "crashed"
             ELSE vpc = "failed" /\ verr = ErrCrosstabDuplicateVerticalAndHorizontalValue)
  /\ [][ValsKept]_vars

\* a build that met the second row of a pair and gave the duplicate error,
\* the value of the first row still stored
C3_Witness ==
  /\ vpc = "failed" /\ verr = ErrCrosstabDuplicateVerticalAndHorizontalValue
  /\ vread >= 2 /\ ~NullKey(vsrc[vread]) /\ Repeats(vread)
  /\ \E i \in 1..(vread - 1) :
       /\ KeyPair(vsrc[i]) = KeyPair(vsrc[vread])
       /\ vvals[KeyPair(vsrc[i])] = vsrc[i].d
       /\ vsrc[i].d # vsrc[vread].d

\* C4: after a successful build every source row (v, h, d) is in the cell
\* (v, h) and there are as many cells as source rows; every (vkey, hkey)
\* without a source row scans as NULL.
C4_EveryRowInOneCell ==
  BuildSucceeded =>
    /\ \A i \in 1..Len(vsrc) :
         KeyPair(vsrc[i]) \in DOMAIN vvals /\ vvals[KeyPair(vsrc[i])] = vsrc[i].d
    /\ Cardinality(DOMAIN vvals) = Len(vsrc)
    /\ \A p \in 1..Len(vout) : \A c \in 1..Len(hkeys) :
         (~\E i \in 1..Len(vsrc) : KeyPair(vsrc[i]) = <<vkeys[p], hkeys[c].v>>)
           => vout[p][c + 1] = NullCell

\* a view read to its end, with two rows, a cell with data and a NULL one
C4_Witness ==
  /\ vpc = "done" /\ Len(vsrc) >= 2 /\ Len(vout) >= 2
  /\ \E p \in 1..Len(vout) : \E c, e \in 2..Len(vout[p]) :
       vout[p][c] = NullCell /\ vout[p][e] # NullCell

\* the position of the first source row whose horizontal key is k
FirstSeenH(k) == CHOOSE i \in 1..Len(vsrc) :
  KeyOf(vsrc[i].h) = k /\ \A j \in 1..(i - 1) : KeyOf(vsrc[j].h) # k

FirstSeenV(k) == CHOOSE i \in 1..Len(vsrc) :
  KeyOf(vsrc[i].v) = k /\ \A j \in 1..(i - 1) : KeyOf(vsrc[j].v) # k

\* the integer the build reads from the sort cell of a row (0 for NULL)
SortValue(row) == IF row.s = NullCell THEN 0 ELSE Atoi(KeyOf(row.s)).n

\* C5: with a sort column the horizontal columns are ascending by the
\* first-seen integer sort value of their key, and keys of equal sort value
\* keep their first-seen order.
C5_SortedStable ==
  (BuildSucceeded /\ vsorted) =>
    \A i, j \in 1..Len(hkeys) : i < j =>
      LET si == SortValue(vsrc[FirstSeenH(hkeys[i].v)])
          sj == SortValue(vsrc[FirstSeenH(hkeys[j].v)])
      IN si < sj \/ (si = sj /\ FirstSeenH(hkeys[i].v) < FirstSeenH(hkeys[j].v))

\* L lists the distinct keys of the source, in the order they are first seen
FirstSeenOrder(L, keyOf(_), firstSeen(_)) ==
  /\ {L[i] : i \in 1..Len(L)} = {keyOf(vsrc[i]) : i \in 1..Len(vsrc)}
  /\ \A i, j \in 1..Len(L) : i < j => firstSeen(L[i]) < firstSeen(L[j])

\* C6: without a sort column, Columns() is the vertical column's name and
\* then the distinct horizontal keys as first seen; reading the view gives
\* one row per distinct vertical key, as first seen, the key in column 0.
C6_FirstSeenOrder ==
  (BuildSucceeded /\ ~vsorted) =>
    LET hk(row) == KeyOf(row.h)
        vk(row) == KeyOf(row.v)
        vs == [p \in 1..Len(vout) |-> vout[p][1].s]
    IN /\ Columns[1] = VerticalName
       /\ FirstSeenOrder(Tail(Columns), hk, FirstSeenH)
       /\ \A p \in 1..Len(vout) : vout[p][1].t = "str" /\ Len(vout[p]) = Len(Columns)
       /\ \A p \in 1..Len(vout) : vs[p] = vkeys[p]
       /\ vpc = "done" => FirstSeenOrder(vs, vk, FirstSeenV)

\* a view without sort column read to its end: three source rows, two
\* vertical and two horizontal keys
C6_Witness ==
  /\ vpc = "done" /\ ~vsorted /\ Len(vsrc) = 3
  /\ Len(vout) = 2 /\ Len(Columns) = 3

\* ------------------------------------------------------------------------
\* TableEncoder and ExpandedEncoder (encode.go)
\* ------------------------------------------------------------------------
\* bounds of the result sets and options of the model
MaxRows == 3
MaxCount == 2
MaxSets == 2
MaxSetRows == 2
UserWidth == 9
ExpandAt == 12

\* NewTableEncoder: tab, formatter and empty value of a new encoder; its
\* title is nil, inline and skipHeader are false, the summary is the default
DefaultTab == 8

TableFormatter == [NewEscapeFormatter EXCEPT !.headerAlign = AlignCenter]

empty == [ZeroValue EXCEPT !.Tabs = <<<<>>>>]

\* what is written is a sequence of tokens: <<"text", b>> is the byte b of a
\* value, <<r, g>> the glyph g ("left", "fill", "mid", "right") of the rune
\* quadruple r of the line style ("Top", "Mid", "Row", "Wrap", "End")
newline == <<"text", "NL">>

Text(b) == [k \in 1..Len(b) |-> <<"text", b[k]>>]

\* runewidth.StringWidth of written tokens (the line style has glyphs of
\* width 1)
StringWidth(toks) == Cardinality({k \in 1..Len(toks) : toks[k] # newline})

\* repeat: the filler, n times
repeat(filler, n) == [k \in 1..n |-> filler]

RECURSIVE Concat(_)
Concat(seqs) == IF seqs = <<>> THEN <<>> ELSE Head(seqs) \o Concat(Tail(seqs))

\* TableEncoder.rowStyle for the rune quadruple r of the line style; the
\* fill rune of the Row quadruple is one cell wide
rowStyle(border, r) ==
  LET spacer == <<<<r, "fill">>>>
  IN [left |-> (IF border > 1 THEN <<<<r, "left">>>> ELSE <<>>)
                 \o (IF border > 0 THEN spacer ELSE <<>>),
      wrapper |-> <<"Wrap", "fill">>,
      middle |-> IF border >= 1 THEN <<<<r, "mid">>>> \o spacer ELSE <<<<"text", " ">>>>,
      right |-> (IF border > 1 THEN <<<<r, "right">>>> ELSE <<>>) \o <<newline>>,
      filler |-> <<r, "fill">>,
      hasWrapping |-> TRUE]

\* the result set as the encoder reads it. fail tells how it fails:
\* "none", it does not; "scan", Scan returns an error for the row after the
\* first `at` rows; "err", Err() is not nil when Next has moved to that row;
\* "next", Next returns false after `at` rows and Err() is then not nil
ErrResultSetHasNoColumns == "result set has no columns"

ErrScan == "scan failed"

ErrUpstream == "result set failed"

NoFailure == [kind |-> "none", at |-> 0]

\* resultSet.Next, pos rows read
HasNext(rows, fail, pos) == pos < Len(rows) /\ ~(fail.kind = "next" /\ fail.at = pos)

\* resultSet.Err, pos rows read
ResultSetErr(fail, pos) ==
  IF fail.kind \in {"err", "next"} /\ fail.at <= pos THEN ErrUpstream ELSE ""

\* TableEncoder.scanAndFormat: the error it returns for the row after the
\* first pos rows, "" for nil; Err() is asked first, then Scan
scanAndFormatErr(fail, pos) ==
  IF fail.kind = "err" /\ ResultSetErr(fail, pos) # "" THEN ErrUpstream
  ELSE IF fail.kind = "scan" /\ fail.at = pos THEN ErrScan
  ELSE ""

\* TableEncoder.nextResults: the loop over resultSet.Next, from the row the
\* result set is at; buf is valsBuffer (the rows by their position in the
\* result set), i the rows read by this call, nexts the calls of Next
RECURSIVE nextResultsLoop(_, _, _, _, _, _, _)
nextResultsLoop(rows, fail, pos, count, buf, i, nexts) ==
  IF ~HasNext(rows, fail, pos)
  THEN [vals |-> buf, pos |-> pos, nexts |-> nexts + 1, err |-> ""]
  ELSE IF scanAndFormatErr(fail, pos) # ""
    THEN [vals |-> buf, pos |-> pos + 1, nexts |-> nexts + 1,
          err |-> scanAndFormatErr(fail, pos)]
  ELSE IF count # 0 /\ (i + 1) % count = 0
    THEN [vals |-> Append(buf, pos + 1), pos |-> pos + 1, nexts |-> nexts + 1, err |-> ""]
  ELSE nextResultsLoop(rows, fail, pos + 1, count, Append(buf, pos + 1), i + 1, nexts + 1)

\* nextResults that reads on into the buffer as the batch before left it
nextResults_keep(rows, fail, pos, count, valsBuffer) ==
  nextResultsLoop(rows, fail, pos, count, valsBuffer, 0, 0)

\* TableEncoder.nextResults: valsBuffer is emptied, then read into
nextResults(rows, fail, pos, count, valsBuffer) ==
  nextResultsLoop(rows, fail, pos, count, SubSeq(valsBuffer, 1, 0), 0, 0)

\* the cell of a row, enc.empty for a nil one
orEmpty(v) == IF v = NilValue THEN empty ELSE v

\* calcWidth that forgets the width the column had
columnWidth_fresh(prev, h, cells, offset) ==
  SetMax({MaxWidth(h, offset, DefaultTab)}
           \cup {MaxWidth(orEmpty(cells[j]), offset, DefaultTab) : j \in 1..Len(cells)})

\* calcWidth, for one column: the maximum of the width it had, the width of
\* its header and the widths of its cells in the batch
columnWidth(prev, h, cells, offset) ==
  SetMax({prev, MaxWidth(h, offset, DefaultTab)}
           \cup {MaxWidth(orEmpty(cells[j]), offset, DefaultTab) : j \in 1..Len(cells)})

\* TableEncoder.calcWidth: the loop over the headers, from column i (0-based)
RECURSIVE calcWidthLoop(_, _, _, _, _, _, _)
calcWidthLoop(i, offset, headers, vals, border, offsets, maxWidths) ==
  IF i >= Len(headers) THEN [offsets |-> offsets, maxWidths |-> maxWidths]
  ELSE LET rs == rowStyle(border, "Row")
           at == offset + (IF i # 0 THEN StringWidth(rs.middle) ELSE 0)
           w == columnWidth(maxWidths[i + 1], headers[i + 1],
                            [j \in 1..Len(vals) |-> vals[j][i + 1]], at)
       IN calcWidthLoop(i + 1,
                        at + w + (IF rs.hasWrapping /\ border # 0 THEN 1 ELSE 0),
                        headers, vals, border,
                        [offsets EXCEPT ![i + 1] = at], [maxWidths EXCEPT ![i + 1] = w])

calcWidth(headers, vals, border, offsets, maxWidths) ==
  calcWidthLoop(0, StringWidth(rowStyle(border, "Row").left),
                headers, vals, border, offsets, maxWidths)

\* TableEncoder.tableWidth
tableWidth(border, maxWidths) ==
  LET rs == rowStyle(border, "Mid")
      col(i) == maxWidths[i] + (IF rs.hasWrapping /\ border >= 1 THEN 1 ELSE 0)
                  + (IF i # Len(maxWidths) THEN StringWidth(rs.middle) ELSE 0)
      RECURSIVE sum(_)
      sum(i) == IF i > Len(maxWidths) THEN 0 ELSE col(i) + sum(i + 1)
  IN StringWidth(rs.left) + StringWidth(rs.right) + sum(1)

\* TableEncoder.writeAligned
writeAligned(b, rs, a, padding) ==
  LET paddingLeft == IF padding <= 0 THEN 0
                     ELSE IF a = AlignRight THEN padding
                     ELSE IF a = AlignCenter THEN padding \div 2
                     ELSE 0
      paddingRight == IF padding <= 0 THEN 0
                      ELSE IF a = AlignRight THEN 0
                      ELSE IF a = AlignCenter THEN (padding \div 2) + (padding % 2)
                      ELSE padding
  IN repeat(rs.filler, paddingLeft) \o Text(b) \o repeat(rs.filler, paddingRight)

\* row that writes the middle separator after the last cell as well
rowMiddle_always(i, rs, border, maxWidths) ==
  IF border >= 1 THEN rs.middle ELSE <<>>

\* TableEncoder.row: the middle separator after the cell i (0-based)
rowMiddle(i, rs, border, maxWidths) ==
  IF i # Len(maxWidths) - 1 /\ border >= 1 THEN rs.middle ELSE <<>>

\* TableEncoder.row: what pass l writes for the cell i (0-based) of vals
rowCell(vals, i, l, rs, border, maxWidths, offsets) ==
  LET v == orEmpty(vals[i + 1])
      lines == Len(v.Newlines)
      width == (IF l < lines THEN v.Newlines[l + 1][2] ELSE 0)
                 + (IF Len(v.Tabs) # 0 /\ Len(v.Tabs[l + 1]) # 0
                    THEN tabwidth(v.Tabs[l + 1], offsets[i + 1], DefaultTab) ELSE 0)
                 + (IF l = lines THEN v.Width ELSE 0)
      padding == IF border <= 1 /\ i = Len(vals) - 1 /\ (~rs.hasWrapping \/ l >= lines)
                 THEN 0 ELSE maxWidths[i + 1] - width
  IN (IF l <= lines THEN writeAligned(LineBytes(v, l), rs, v.Align, padding)
      ELSE IF border > 1 \/ i # Len(vals) - 1 THEN repeat(rs.filler, maxWidths[i + 1])
      ELSE <<>>)
     \o (IF ~rs.hasWrapping THEN <<>> ELSE IF l < lines THEN <<rs.wrapper>> ELSE <<rs.filler>>)
     \o rowMiddle(i, rs, border, maxWidths)

\* TableEncoder.row: the passes from pass l on, one line each
RECURSIVE rowLines(_, _, _, _, _, _)
rowLines(vals, l, rs, border, maxWidths, offsets) ==
  LET line == rs.left
                \o Concat([k \in 1..Len(vals) |->
                             rowCell(vals, k - 1, l, rs, border, maxWidths, offsets)])
                \o rs.right
      remaining == \E k \in 1..Len(vals) : l < Len(orEmpty(vals[k]).Newlines)
  IN <<line>> \o (IF remaining THEN rowLines(vals, l + 1, rs, border, maxWidths, offsets)
                  ELSE <<>>)

\* row that stops after its first pass
row_once(vals, rs, border, maxWidths, offsets) ==
  <<Head(rowLines(vals, 0, rs, border, maxWidths, offsets))>>

\* TableEncoder.row: the lines of a row, from the pass 0 on
row(vals, rs, border, maxWidths, offsets) == rowLines(vals, 0, rs, border, maxWidths, offsets)

\* TableEncoder.divider
divider(rs, border, maxWidths) ==
  rs.left
    \o Concat([k \in 1..Len(maxWidths) |->
                 repeat(rs.filler, maxWidths[k])
                   \o (IF rs.hasWrapping /\ border >= 1 THEN <<rs.filler>> ELSE <<>>)
                   \o (IF k - 1 # Len(maxWidths) - 1 THEN rs.middle ELSE <<>>)])
    \o rs.right

\* a written line, with what wrote it: the layout ("table" or "expanded"),
\* the routine, the row of the result set it is for, the pass of the routine
Lines(by, kind, src, lines) ==
  [k \in 1..Len(lines) |->
     [by |-> by, kind |-> kind, src |-> src, l |-> k - 1, toks |-> lines[k]]]

\* TableEncoder.header
header(headers, border, maxWidths, offsets) ==
  (IF border >= 2 THEN Lines("table", "divider", 0, <<divider(rowStyle(border, "Top"), border, maxWidths)>>)
   ELSE <<>>)
    \o Lines("table", "header", 0, row(headers, rowStyle(border, "Row"), border, maxWidths, offsets))
    \o Lines("table", "divider", 0, <<divider(rowStyle(border, "Mid"), border, maxWidths)>>)

\* TableEncoder.encodeVals: the rows of the batch; src[i] is the position of
\* vals[i] in the result set
encodeVals(vals, src, border, maxWidths, offsets) ==
  Concat([i \in 1..Len(vals) |->
            Lines("table", "row", src[i],
                  row(vals[i], rowStyle(border, "Row"), border, maxWidths, offsets))])

\* ExpandedEncoder.recordHeader
recordHeader(i, border) ==
  IF border # 0
  THEN <<"[", " ", "R", "E", "C", "O", "R", "D", " ">> \o Itoa(i + 1) \o <<" ", "]">>
  ELSE <<"*", " ", "R", "e", "c", "o", "r", "d", " ">> \o Itoa(i + 1)

\* ExpandedEncoder.calcWidth
expandedCalcWidth(headers, vals, border, maxWidths) ==
  LET rs == rowStyle(border, "Row")
      o0 == StringWidth(rs.left)
      w0 == SetMax({maxWidths[1]}
                     \cup {MaxWidth(headers[k], o0, DefaultTab) : k \in 1..Len(headers)})
      mw == StringWidth(rs.middle)
      o1 == o0 + w0 + (IF rs.hasWrapping /\ border # 0 THEN 1 ELSE 0) + mw
      w1 == SetMax({Max(0, Len(recordHeader(Len(vals) - 1, border)) - w0 - mw - 1)}
                     \cup {MaxWidth(orEmpty(vals[j][k]), o1, DefaultTab) :
                             j \in 1..Len(vals), k \in 1..Len(headers)})
  IN [offsets |-> <<o0, o1>>, maxWidths |-> <<w0, w1>>]

\* ExpandedEncoder.record, for the row i (0-based) of the batch
record(i, vals, src, headers, border, maxWidths, offsets) ==
  LET rs == rowStyle(border, "Row")
      headerRS == IF border = 0 THEN rs
                  ELSE IF i # 0 THEN rowStyle(border, "Mid") ELSE rowStyle(border, "Top")
      h == recordHeader(i, border)
      padding == maxWidths[1] + maxWidths[2] + StringWidth(headerRS.middle) * 2 - Len(h) - 1
      left(v) == IF v = NilValue THEN v ELSE [v EXCEPT !.Align = AlignLeft]
  IN Lines("expanded", "record", src, <<headerRS.left \o Text(h) \o repeat(headerRS.filler, padding)
                                          \o <<headerRS.filler>> \o headerRS.right>>)
       \o Concat([j \in 1..Len(vals) |->
                    Lines("expanded", "field", src,
                          row(<<headers[j], left(vals[j])>>, rs, border, maxWidths, offsets))])

\* ExpandedEncoder.encodeVals
expandedEncodeVals(vals, src, headers, border, maxWidths, offsets, scanCount) ==
  Concat([i \in 1..Len(vals) |->
            record(i - 1, vals[i], src[i], headers, border, maxWidths, offsets)])
    \o (IF border >= 2 /\ scanCount # 0
        THEN Lines("expanded", "divider", 0, <<divider(rowStyle(border, "End"), border, maxWidths)>>)
        ELSE <<>>)

\* a summary map is given by its keys, nil for the nil map; the entry of
\* key 1 writes "(%d row)" as in DefaultTableSummary, every other entry
\* "(%d rows)"
NilSummary == [nil |-> TRUE, keys |-> {}]

SummaryMap(keys) == [nil |-> FALSE, keys |-> keys]

DefaultTableSummary == SummaryMap({1, 0 - 1})

\* the line an entry of a summary map writes for count, and the newline
\* summarize writes after it
SummaryLine(key, count) ==
  [by |-> "table", kind |-> "summary", src |-> key, l |-> 0,
   toks |-> Text(<<"(">> \o Itoa(count) \o <<" ", "r", "o", "w">>
                   \o (IF key = 1 THEN <<>> ELSE <<"s">>) \o <<")">>)
              \o <<newline>>]

\* summarize that takes the entry of -1 even when the row count has one
summarize_any(summary, scanCount) ==
  IF summary.nil THEN <<>>
  ELSE IF 0 - 1 \in summary.keys THEN <<SummaryLine(0 - 1, scanCount)>>
  ELSE IF scanCount \in summary.keys THEN <<SummaryLine(scanCount, scanCount)>>
  ELSE <<>>

\* TableEncoder.summarize
summarize(summary, scanCount) ==
  IF summary.nil THEN <<>>
  ELSE IF scanCount \in summary.keys THEN <<SummaryLine(scanCount, scanCount)>>
  ELSE IF 0 - 1 \in summary.keys THEN <<SummaryLine(0 - 1, scanCount)>>
  ELSE <<>>

\* the result sets of the model: the columns are the first names of
\* ColumnNames; a row is given by the place in CellCatalogue of its first
\* cell, its next cells are the next ones of the catalogue
ColumnNames == <<<<"x">>, <<"a", "b">>, <<"b">>>>

CellCatalogue ==
  << StrCell(<<"a">>), NullCell, StrCell(<<"a", "b", "x", "NL", "a">>),
     IntCell(12), StrCell(<<"TAB", "WIDE", "+">>),
     StrCell(<<"a", "b", "x", "a", "b", "x", "a", "b", "x">>) >>

RowCells(kind, n) ==
  [c \in 1..n |-> CellCatalogue[((kind + c - 2) % Len(CellCatalogue)) + 1]]

\* scanAndFormat of the row at position k of the result set
Scanned(k) == Format(TableFormatter, RowCells(erows[k], Len(ecols)))

\* enc.headers: formatter.Header(cols), with the header alignment the
\* formatter had when Encode made them
Headers == Header([TableFormatter EXCEPT !.headerAlign = ehalign], ecols)

\* NewTableEncoder and NewExpandedEncoder: the summary map and the header
\* alignment of a new encoder; custom is the map given WithSummary, if one
\* is given
NoSummaryGiven == [given |-> FALSE, map |-> NilSummary]

WithSummary(summary) == [given |-> TRUE, map |-> summary]

NewSummary(kind, custom) ==
  IF custom.given THEN custom.map
  ELSE IF kind = "table" THEN DefaultTableSummary ELSE NilSummary

NewHeaderAlign(kind) == IF kind = "table" THEN AlignCenter ELSE AlignLeft

\* the state of a new encoder, before Encode or EncodeAll is called
EncNew ==
  /\ FormatIdle /\ ViewIdle /\ OptsIdle /\ PagerIdle
  /\ epc = "start"
  /\ epos = 0 /\ evals = <<>> /\ escan = 0
  /\ emaxWidths = <<>> /\ eoffsets = <<>> /\ ewroteHeader = FALSE /\ eout = <<>>
  /\ eprev = <<>> /\ ebatches = 0
  /\ eerr = "" /\ enext = 0 /\ esink = <<>>
  /\ efalign = NewHeaderAlign(ekind) /\ ehalign = NewHeaderAlign(ekind)

\* a TableEncoder with the default summary on one result set that does not
\* fail
EncInit ==
  /\ ekind = "table"
  /\ ecols \in {SubSeq(ColumnNames, 1, n) : n \in 1..Len(ColumnNames)}
  /\ erows \in SeqsUpTo(1..(Len(CellCatalogue) - 1), MaxRows)
  /\ ecount \in 0..MaxCount
  /\ eborder \in 0..2
  /\ ewidths \in {<<>>, <<UserWidth, UserWidth>>}
  /\ eminExpand \in {0, ExpandAt}
  /\ efail = NoFailure /\ esets = <<>>
  /\ esummary = NewSummary(ekind, NoSummaryGiven)
  /\ EncNew

\* the ways a result set of n rows fails
Failures(n) ==
  {NoFailure}
    \cup {[kind |-> k, at |-> a] : k \in {"scan", "err"}, a \in 0..(n - 1)}
    \cup {[kind |-> "next", at |-> a] : a \in 0..n}

\* a TableEncoder or an ExpandedEncoder on one result set that may fail
\* and may have no columns
FailInit ==
  /\ ekind \in {"table", "expanded"}
  /\ ecols \in {SubSeq(ColumnNames, 1, n) : n \in 0..2}
  /\ erows \in SeqsUpTo({1, 3, 6}, MaxRows)
  /\ ecount \in 0..MaxCount
  /\ eborder \in {1, 2}
  /\ ewidths = <<>>
  /\ eminExpand \in {0, ExpandAt}
  /\ efail \in Failures(Len(erows)) /\ esets = <<>>
  /\ esummary = NewSummary(ekind, NoSummaryGiven)
  /\ EncNew

\* the summary maps given WithSummary: none, the empty map, and maps with
\* and without an entry of -1
CustomSummaries ==
  {NoSummaryGiven, WithSummary(SummaryMap({})), WithSummary(SummaryMap({0 - 1})),
   WithSummary(SummaryMap({2})), WithSummary(SummaryMap({0, 2, 0 - 1}))}

\* a TableEncoder or an ExpandedEncoder on up to 1 + MaxSets result sets of
\* the same columns and of up to MaxSetRows rows
AllInit ==
  /\ ekind \in {"table", "expanded"}
  /\ ecols = SubSeq(ColumnNames, 1, 2)
  /\ erows \in SeqsUpTo({1, 3}, MaxSetRows)
  /\ esets \in SeqsUpTo(SeqsUpTo({1}, MaxSetRows), MaxSets)
  /\ ecount \in {0, 1}
  /\ eborder \in {1, 2}
  /\ ewidths \in {<<>>, <<UserWidth, UserWidth>>}
  /\ eminExpand \in {0, ExpandAt}
  /\ efail = NoFailure
  /\ \E custom \in CustomSummaries : esummary = NewSummary(ekind, custom)
  /\ EncNew

\* a TableEncoder given WithWidths a slice of one small width for each
\* column, on up to two result sets of two columns
WidthsInit ==
  /\ ekind = "table"
  /\ ecols = SubSeq(ColumnNames, 1, 2)
  /\ erows \in SeqsUpTo({1, 3}, MaxSetRows)
  /\ esets \in SeqsUpTo(SeqsUpTo({1, 3}, MaxSetRows), 1)
  /\ ecount \in {0, 1}
  /\ eborder \in {1, 2}
  /\ ewidths \in {<<1, 1>>, <<2, UserWidth>>}
  /\ eminExpand = 0
  /\ efail = NoFailure
  /\ esummary = NewSummary(ekind, NoSummaryGiven)
  /\ EncNew

\* enc.widths: Encode makes maxWidths the caller's slice when it has one
\* width for each column, and calcWidth then writes to it
widths ==
  IF ekind = "table" /\ emaxWidths # <<>> /\ Len(ewidths) = Len(ecols)
  THEN emaxWidths ELSE ewidths

\* Encode that takes any list of columns
columnsErr_none(cols) == ""

\* Encode: the error for the columns of the result set, "" for none
columnsErr(cols) == IF Len(cols) = 0 THEN ErrResultSetHasNoColumns ELSE ""

\* Encode, up to the loop: nothing has been read or written when it returns
\* ErrResultSetHasNoColumns
EncodeStart ==
  /\ epc = "start"
  /\ escan' = 0 /\ eout' = <<>> /\ eprev' = <<>> /\ ebatches' = 0
  /\ IF columnsErr(ecols) # ""
     THEN /\ epc' = "failed" /\ eerr' = columnsErr(ecols)
          /\ UNCHANGED <<eoffsets, ewroteHeader, emaxWidths, evals, ehalign>>
     ELSE /\ epc' = "loop" /\ UNCHANGED eerr
          /\ eoffsets' = [i \in 1..(IF ekind = "table" THEN Len(ecols) ELSE 2) |-> 0]
          /\ ewroteHeader' = FALSE
          /\ emaxWidths' = IF ekind = "expanded" THEN <<0, 0>>
                           ELSE IF Len(ewidths) = Len(ecols) THEN widths
                           ELSE [i \in 1..Len(ecols) |-> 0]
          /\ ehalign' = efalign
          /\ evals' = <<>>
  /\ UNCHANGED <<ecols, erows, ecount, eborder, ewidths, eminExpand, epos,
                 ekind, efail, enext, esets, esink, esummary, efalign, fvars, vvars, ovars, pvars>>

\* Encode, a turn of the loop: nextResults, whose error Encode returns, and
\* calcWidth if there are rows
MeasureBatch ==
  /\ epc = "loop"
  /\ LET r == nextResults(erows, efail, epos, ecount, evals)
         vals == [j \in 1..Len(r.vals) |-> Scanned(r.vals[j])]
         w == IF ekind = "table"
              THEN calcWidth(Headers, vals, eborder, eoffsets, emaxWidths)
              ELSE expandedCalcWidth(Headers, vals, eborder, emaxWidths)
     IN /\ evals' = r.vals /\ epos' = r.pos /\ enext' = enext + r.nexts
        /\ escan' = escan + Len(r.vals)
        /\ IF r.err # ""
           THEN /\ epc' = "failed" /\ eerr' = r.err
                /\ UNCHANGED <<eoffsets, emaxWidths, eprev, ebatches>>
           ELSE IF Len(r.vals) = 0
           THEN /\ epc' = "summarize"
                /\ UNCHANGED <<eoffsets, emaxWidths, eprev, ebatches, eerr>>
           ELSE /\ epc' = "emit" /\ UNCHANGED eerr
                /\ eoffsets' = w.offsets /\ emaxWidths' = w.maxWidths
                /\ eprev' = emaxWidths /\ ebatches' = ebatches + 1
  /\ UNCHANGED <<ecols, erows, ecount, eborder, ewidths, eminExpand, ewroteHeader, eout,
                 ekind, efail, esets, esink, esummary, efalign, ehalign, fvars, vvars, ovars, pvars>>

\* Encode expands that only when the table is wider than minExpandWidth
expands_wider(minExpandWidth, width) == minExpandWidth # 0 /\ width > minExpandWidth

\* Encode: whether a batch is written in the expanded layout, given the
\* table width after calcWidth
expands(minExpandWidth, width) == minExpandWidth # 0 /\ width >= minExpandWidth

\* Encode, the rest of the turn. A TableEncoder writes the batch expanded
\* if the table is at least minExpandWidth wide, which sets the header
\* alignment of the formatter; else it writes the header if it has not
\* been, then the rows, then the end border. An ExpandedEncoder writes the
\* records and its end border
EmitBatch ==
  /\ epc = "emit"
  /\ LET vals == [j \in 1..Len(evals) |-> Scanned(evals[j])]
         exp == expandedCalcWidth(Headers, vals, eborder, <<0, 0>>)
     IN IF ekind = "expanded"
        THEN /\ eout' = eout \o expandedEncodeVals(vals, evals, Headers, eborder,
                                                   emaxWidths, eoffsets, escan)
             /\ UNCHANGED <<ewroteHeader, efalign>>
        ELSE IF expands(eminExpand, tableWidth(eborder, emaxWidths))
        THEN /\ eout' = eout \o expandedEncodeVals(vals, evals, Headers, eborder,
                                                   exp.maxWidths, exp.offsets, escan)
             /\ efalign' = AlignLeft
             /\ UNCHANGED ewroteHeader
        ELSE /\ eout' = eout
                  \o (IF ewroteHeader THEN <<>> ELSE header(Headers, eborder, emaxWidths, eoffsets))
                  \o encodeVals(vals, evals, eborder, emaxWidths, eoffsets)
                  \o (IF eborder >= 2
                      THEN Lines("table", "divider", 0,
                                 <<divider(rowStyle(eborder, "End"), eborder, emaxWidths)>>)
                      ELSE <<>>)
             /\ ewroteHeader' = TRUE
             /\ UNCHANGED efalign
  /\ epc' = "loop"
  /\ UNCHANGED <<ecols, erows, ecount, eborder, ewidths, eminExpand, epos, evals, escan,
                 emaxWidths, eoffsets, eprev, ebatches,
                 ekind, efail, eerr, enext, esets, esink, esummary, ehalign, fvars, vvars, ovars, pvars>>

\* Encode, after the loop: the summary, and Flush hands what Encode has
\* written to the writer
Summarize ==
  /\ epc = "summarize"
  /\ eout' = eout \o summarize(esummary, escan)
  /\ esink' = esink \o eout'
  /\ epc' = "done"
  /\ UNCHANGED <<ecols, erows, ecount, eborder, ewidths, eminExpand, epos, evals, escan,
                 emaxWidths, eoffsets, ewroteHeader, eprev, ebatches,
                 ekind, efail, eerr, enext, esets, esummary, efalign, ehalign, fvars, vvars, ovars, pvars>>

\* the newline EncodeAll writes to the writer
Separator == [by |-> "all", kind |-> "newline", src |-> 0, l |-> 0, toks |-> <<newline>>]

\* EncodeAll, after an Encode that returned nil: with a next result set a
\* newline and Encode again, else a newline and EncodeAll returns nil
NextResultSet ==
  /\ epc = "done"
  /\ esink' = Append(esink, Separator)
  /\ IF esets # <<>>
     THEN /\ erows' = Head(esets) /\ esets' = Tail(esets)
          /\ epos' = 0 /\ enext' = 0
          /\ epc' = "start"
     ELSE /\ epc' = "end"
          /\ UNCHANGED <<erows, esets, epos, enext>>
  /\ UNCHANGED <<ecols, ecount, eborder, ewidths, eminExpand, evals, escan,
                 emaxWidths, eoffsets, ewroteHeader, eout, eprev, ebatches,
                 ekind, efail, eerr, esummary, efalign, ehalign, fvars, vvars, ovars, pvars>>

Next == EncodeStart \/ MeasureBatch \/ EmitBatch \/ Summarize \/ NextResultSet

Spec == EncInit /\ [][Next]_vars

SpecFail == FailInit /\ [][Next]_vars

SpecAll == AllInit /\ [][Next]_vars

SpecWidths == WidthsInit /\ [][Next]_vars

\* the rows of the result set that have been written, in the order of their
\* first lines: a row of the table, or a record of the expanded layout
EmittedRows ==
  LET first(line) == (line.kind = "row" /\ line.l = 0) \/ line.kind = "record"
      lines == SelectSeq(eout, first)
  IN [k \in 1..Len(lines) |-> lines[k].src]

\* C1: for every result set and every count, Encode writes the rows in the
\* order the result set returned them, each once: at every moment the rows
\* written are the first rows of the result set, in order; at the end they
\* are all its rows.
C1_RowsInOrderOnce ==
  /\ \A k \in 1..Len(EmittedRows) : EmittedRows[k] = k
  /\ Len(EmittedRows) <= Len(erows)
  /\ epc \in {"loop", "summarize", "done"} => Len(EmittedRows) = epos
  /\ epc \in {"summarize", "done"} => Len(EmittedRows) = Len(erows)

\* a result set of three rows written in two batches, the first in the
\* table layout and the second in the expanded one
C1_Witness ==
  /\ epc = "done" /\ Len(erows) = 3 /\ ecount = 2 /\ ebatches = 2
  /\ EmittedRows = <<1, 2, 3>>
  /\ \E k \in 1..Len(eout) : eout[k].kind = "row" /\ eout[k].src = 1
  /\ \E k \in 1..Len(eout) : eout[k].kind = "record" /\ eout[k].src = 3

\* the glyphs g of the line style among the tokens of a line
Glyphs(toks, g) == {k \in 1..Len(toks) : toks[k][1] # "text" /\ toks[k][2] = g}

\* C7: with border 2, every line that row and divider write starts with the
\* one left border glyph it has, ends (before the newline) with the one
\* right border glyph it has, and has one mid separator less than it has
\* cells: the columns of the result set in the table layout, the name and
\* the value in the expanded layout.
C7_BorderSymmetry ==
  eborder = 2 =>
    \A k \in 1..Len(eout) :
      eout[k].kind \in {"divider", "header", "row", "field"} =>
        LET toks == eout[k].toks
            n == IF eout[k].by = "table" THEN Len(ecols) ELSE 2
        IN /\ Glyphs(toks, "left") = {1}
           /\ Glyphs(toks, "right") = {Len(toks) - 1}
           /\ Cardinality(Glyphs(toks, "mid")) = n - 1

\* a table of three columns with border 2: a divider, and the second line
\* of a row with a cell of two lines
C7_Witness ==
  /\ eborder = 2 /\ Len(ecols) = 3
  /\ \E k \in 1..Len(eout) : eout[k].by = "table" /\ eout[k].kind = "divider"
  /\ \E k \in 1..Len(eout) :
       /\ eout[k].by = "table" /\ eout[k].kind = "row" /\ eout[k].l = 1
       /\ Cardinality(Glyphs(eout[k].toks, "mid")) = 2

\* C8: maxWidths[i] after measuring a batch is at least what it was after
\* measuring the batch before, for every column i.
C8_MaxWidthsMonotone ==
  ebatches >= 2 =>
    /\ Len(emaxWidths) = Len(eprev)
    /\ \A i \in 1..Len(emaxWidths) : emaxWidths[i] >= eprev[i]

\* the widest cell of column i in the batch that has been measured
BatchWidth(i) ==
  SetMax({0} \cup {MaxWidth(orEmpty(Scanned(evals[j])[i]), eoffsets[i], DefaultTab) :
                     j \in 1..Len(evals)})

\* a second batch has been measured: one column has cells wider than all
\* before and has grown, another has only narrower cells than it had before
C8_Witness ==
  /\ epc = "emit" /\ ebatches = 2
  /\ \E i \in 1..Len(emaxWidths) : emaxWidths[i] > eprev[i]
  /\ \E i \in 1..Len(emaxWidths) : BatchWidth(i) < eprev[i] /\ emaxWidths[i] = eprev[i]

\* C9: after a batch is measured, maxWidths[i] is at least the width the
\* caller supplied for column i, for every column that has one.
C9_AtLeastUserWidths ==
  ebatches >= 1 =>
    \A i \in 1..Len(ecols) : i <= Len(ewidths) => emaxWidths[i] >= ewidths[i]

\* ------------------------------------------------------------------------
\* Errors of the result set and of its columns
\* ------------------------------------------------------------------------
\* the error the result set reports where it fails
FailureError == IF efail.kind = "scan" THEN ErrScan ELSE ErrUpstream

\* Encode has returned, on a result set that fails: reading always comes to
\* the place where it does
FailureMet ==
  /\ efail.kind # "none" /\ Len(ecols) > 0
  /\ epc \in {"done", "end", "failed"}

SummaryWritten == \E k \in 1..Len(eout) : eout[k].kind = "summary"

\* C11: when the result set fails while Encode reads it (Scan returns an
\* error, or Next returns false and Err() is then not nil), Encode returns
\* that error, reads no further row and writes no summary.
C11_ReadErrorReturned ==
  FailureMet =>
    /\ epc = "failed" /\ eerr = FailureError
    /\ epos <= efail.at + 1
    /\ ~SummaryWritten /\ esink = <<>>

\* C12: Encode of a TableEncoder or an ExpandedEncoder on a result set
\* without columns returns ErrResultSetHasNoColumns before any call of Next
\* or Scan and before anything is written.
C12_NoColumnsBeforeReading ==
  (Len(ecols) = 0 /\ epc # "start") =>
    /\ epc = "failed" /\ eerr = ErrResultSetHasNoColumns
    /\ enext = 0 /\ epos = 0 /\ escan = 0
    /\ eout = <<>> /\ esink = <<>>

\* Encode of an ExpandedEncoder has returned on a result set that has rows
\* but no columns
C12_Witness ==
  /\ epc = "failed" /\ Len(ecols) = 0 /\ Len(erows) >= 1 /\ ekind = "expanded"
  /\ efail = NoFailure

\* ------------------------------------------------------------------------
\* The parameters of a crosstab view
\* ------------------------------------------------------------------------
\* the columns the vertical and the horizontal parameter name
VerticalColumn == findIndex(vcols, vparams.v, 0)

HorizontalColumn == findIndex(vcols, vparams.h, 1)

\* the data and sort parameters name columns of the result set
OthersResolve ==
  /\ Len(vcols) >= 3
  /\ IF vparams.d = <<>> THEN Len(vcols) = 3 ELSE indexOf(vcols, vparams.d) # 0 - 1
  /\ vparams.s # <<>> => indexOf(vcols, vparams.s) # 0 - 1

\* C13: NewCrosstabView fails with
\* ErrCrosstabVerticalAndHorizontalColumnsMustNotBeSame whenever the vertical
\* and the horizontal parameter resolve to the same column of the result
\* set, each given by name in any letter case, by number or by default.
C13_SameColumnRejected ==
  (vpc # "new" /\ OthersResolve
     /\ VerticalColumn # 0 - 1 /\ VerticalColumn = HorizontalColumn)
    => (vpc = "failed" /\ verr = ErrCrosstabVerticalAndHorizontalColumnsMustNotBeSame)

\* C14: when the data column is not named, with three columns it is the one
\* of them that is neither the vertical nor the horizontal column, whatever
\* these are, and construction does not fail for the data column; with more
\* than three columns construction fails.
C14_DefaultDataColumn ==
  (vpc # "new" /\ vparams.d = <<>>) =>
    /\ (Len(vcols) = 3 /\ vpc # "failed") =>
         /\ vidx.d \in 0..2 /\ vidx.d \notin {vidx.v, vidx.h}
         /\ \A j \in 1..Len(vsrc) : vsrc[j].d = vraw[j][vidx.d + 1]
    /\ (Len(vcols) = 3 /\ vpc = "failed") =>
         verr \notin {ErrCrosstabDataColumnNotInResult,
                      ErrCrosstabDataColumnMustBeSpecifiedWhenQueryReturnsMoreThanThreeColumns}
    /\ Len(vcols) > 3 => vpc = "failed"

\* a view of three columns, the vertical one named as the third and the
\* horizontal one by default: the data is the first column
C14_Witness ==
  /\ vpc = "done" /\ vparams.d = <<>> /\ Len(vcols) = 3 /\ Len(vraw) >= 1
  /\ vidx = [v |-> 2, h |-> 1, d |-> 0, s |-> 0 - 1]

\* the sort cell is NULL or not an integer
Unparsable(cell) == cell = NullCell \/ ~Atoi(KeyOf(cell)).ok

\* the first source row whose sort cell does not parse, 0 when there is none
FirstUnparsable ==
  IF \E j \in 1..Len(vsrc) : Unparsable(vsrc[j].s)
  THEN CHOOSE j \in 1..Len(vsrc) :
         Unparsable(vsrc[j].s) /\ \A i \in 1..(j - 1) : ~Unparsable(vsrc[i].s)
  ELSE 0

\* C15: with a sort column, NewCrosstabView fails with
\* ErrCrosstabHorizontalSortColumnIsNotANumber at the first source row whose
\* sort cell does not parse as an integer, be its horizontal key new or
\* seen and be the cell a text or NULL (no row before it has a NULL key or
\* the keys of an earlier row).
C15_SortCellMustParse ==
  (BuildEnded /\ vsorted /\ FirstUnparsable # 0
     /\ \A i \in 1..(FirstUnparsable - 1) : ~NullKey(vsrc[i]) /\ ~Repeats(i))
    => /\ vpc = "failed" /\ verr = ErrCrosstabHorizontalSortColumnIsNotANumber
       /\ vread = FirstUnparsable

\* ------------------------------------------------------------------------
\* The expanded layout of a batch
\* ------------------------------------------------------------------------
\* the lines the step writes
Written == SubSeq(eout', Len(eout) + 1, Len(eout'))

\* the step writes the batch that has been measured
BatchStep == epc = "emit" /\ epc' = "loop" /\ ekind = "table" /\ eminExpand # 0

\* the width of a line of the table with the widths measured: the borders,
\* and for each column its width, its wrap cell and its separator
MeasuredWidth ==
  StringWidth(divider(rowStyle(eborder, "Mid"), eborder, emaxWidths))

\* after a line of the expanded layout no line of a batch is of the table
\* layout
ExpandedStays ==
  \A i, j \in 1..Len(eout) :
    (i < j /\ eout[i].by = "expanded" /\ eout[j].kind # "summary")
      => eout[j].by = "expanded"

\* C16: with minExpandWidth m # 0 a batch is written in the expanded layout
\* exactly when the table width after measuring it is at least m, and after
\* a batch of an Encode call was written expanded every later batch of the
\* call is.
C16_ExpandedFromWidth ==
  /\ [][BatchStep =>
          /\ Written # <<>>
          /\ IF MeasuredWidth >= eminExpand
             THEN \A k \in 1..Len(Written) : Written[k].by = "expanded"
             ELSE \A k \in 1..Len(Written) : Written[k].by = "table"]_vars
  /\ [](eminExpand # 0 => ExpandedStays)

\* three batches of one row: the first as a table, the second expanded, and
\* the third, the row of the first batch again, expanded too
C16_Witness ==
  /\ epc = "done" /\ eminExpand # 0 /\ ecount = 1 /\ ebatches = 3
  /\ erows[3] = erows[1]
  /\ \E k \in 1..Len(eout) : eout[k].kind = "row" /\ eout[k].src = 1
  /\ \E k \in 1..Len(eout) : eout[k].kind = "record" /\ eout[k].src = 2
  /\ \E k \in 1..Len(eout) : eout[k].kind = "record" /\ eout[k].src = 3

\* ------------------------------------------------------------------------
\* EncodeAll and the summary
\* ------------------------------------------------------------------------
\* the step in which Encode returns nil, and the step of EncodeAll after it
EncodeReturns == epc = "summarize" /\ epc' = "done"

AfterEncode == epc = "done" /\ epc' # "done"

\* C17: EncodeAll writes Encode(R1), one newline, Encode(R2), ..., one
\* newline, Encode(Rn): what an Encode wrote reaches the writer as it is, a
\* newline follows it when there is a next result set, and nothing follows
\* the last.
C17_NewlineBetweenResultSets ==
  [][/\ EncodeReturns => esink' = esink \o eout'
     /\ AfterEncode => esink' = IF esets # <<>> THEN Append(esink, Separator) ELSE esink]_vars

\* the summary lines among lines
Summaries(lines) == LET isSummary(line) == line.kind = "summary" IN SelectSeq(lines, isSummary)

\* C18: the summary of a result set is written by the entry of the summary
\* map whose key is the number of its rows if there is one, else by the
\* entry of -1, else there is none; the count it is given is the number of
\* rows of this result set alone; an empty map writes no summary. The
\* summary is the last line Encode writes.
C18_SummaryByRowCount ==
  epc = "done" =>
    LET n == Len(erows)
        expected == IF ~esummary.nil /\ n \in esummary.keys THEN <<SummaryLine(n, n)>>
                    ELSE IF ~esummary.nil /\ (0 - 1) \in esummary.keys
                      THEN <<SummaryLine(0 - 1, n)>>
                    ELSE <<>>
    IN /\ Summaries(eout) = expected
       /\ expected # <<>> => eout[Len(eout)] = expected[1]

\* EncodeAll has encoded a result set of one row, summarized by the entry
\* of -1, and then one of two rows, summarized by the entry of 2
C18_Witness ==
  /\ epc = "done" /\ esummary = SummaryMap({0, 2, 0 - 1}) /\ Len(erows) = 2
  /\ Len(Summaries(esink)) = 2
  /\ Summaries(esink)[1] = SummaryLine(0 - 1, 1)
  /\ Summaries(esink)[2] = SummaryLine(2, 2)

\* ------------------------------------------------------------------------
\* Raw formatting (csv, unaligned)
\* ------------------------------------------------------------------------
\* the bytes of a text
SourceBytes(t) == Concat([k \in 1..Len(t) |-> EncodeRune(t[k])])

\* the text between the quotes of a quoted field, its doubled quotes made
\* single; ok is false when a quote stands alone
RECURSIVE Undouble(_, _)
Undouble(b, quote) ==
  IF b = <<>> THEN [ok |-> TRUE, bytes |-> <<>>]
  ELSE IF Head(b) # quote
    THEN LET rest == Undouble(Tail(b), quote)
         IN [ok |-> rest.ok, bytes |-> <<Head(b)>> \o rest.bytes]
  ELSE IF Len(b) >= 2 /\ b[2] = quote
    THEN LET rest == Undouble(SubSeq(b, 3, Len(b)), quote)
         IN [ok |-> rest.ok, bytes |-> <<quote>> \o rest.bytes]
  ELSE [ok |-> FALSE, bytes |-> <<>>]

\* a field read back under the rules of quote doubling: a field that starts
\* with the quote ends with it and has its quotes doubled in between; any
\* other field has no separator, quote, carriage return or newline
ParseField(b, sep, quote) ==
  IF b # <<>> /\ Head(b) = quote
  THEN IF Len(b) >= 2 /\ b[Len(b)] = quote
       THEN Undouble(SubSeq(b, 2, Len(b) - 1), quote)
       ELSE [ok |-> FALSE, bytes |-> <<>>]
  ELSE [ok |-> \A k \in 1..Len(b) : b[k] \notin {sep, quote, "CR", "NL"}, bytes |-> b]

\* C19: a byte sequence formatted by FormatBytes in raw mode with the
\* separator S and the quote Q, wrapped in Q when the Value is Quoted, reads
\* back as the original bytes; the Value is Quoted when the input has S, Q,
\* a carriage return or a newline, and every Q of the input is doubled.
C19_RawRoundTrip ==
  (fpc = "formatted" /\ fin.t = "str" /\ ff.isRaw /\ ff.quote # "NUL") =>
    LET field == unalignedField(fval, ff.quote)
        back == ParseField(field, ff.sep, ff.quote)
        special == {k \in 1..Len(fin.s) : fin.s[k] \in {ff.sep, ff.quote, "CR", "NL"}}
        quotes(b) == Cardinality({k \in 1..Len(b) : b[k] = ff.quote})
    IN /\ back.ok /\ back.bytes = SourceBytes(fin.s)
       /\ special # {} => fval.Quoted
       /\ quotes(fval.Buf) = 2 * quotes(fin.s)

\* ------------------------------------------------------------------------
\* Encoders from a map of options (FromMap, the Builders, errEncoder)
\* ------------------------------------------------------------------------
ErrInvalidFormat == "invalid format"

ErrInvalidFieldSeparator == "invalid field separator"

\* the values of the maps, as their runes
TextJson == <<"j", "s", "o", "n">>

TextCsv == <<"c", "s", "v">>

TextUnaligned == <<"u", "n", "a", "l", "i", "g", "n", "e", "d">>

TextAligned == <<"a", "l", "i", "g", "n", "e", "d">>

TextHtml == <<"h", "t", "m", "l">>

TextAsciidoc == <<"a", "s", "c", "i", "i", "d", "o", "c">>

TextLatex == <<"l", "a", "t", "e", "x">>

TextLatexLongtable == TextLatex \o <<"-", "l", "o", "n", "g", "t", "a", "b", "l", "e">>

TextTroffMs == <<"t", "r", "o", "f", "f", "-", "m", "s">>

\* the formats written by a template
TemplateFormats == {TextHtml, TextAsciidoc, TextLatex, TextLatexLongtable, TextTroffMs}

TextOn == <<"o", "n">>

TextOff == <<"o", "f", "f">>

TextTrue == <<"t", "r", "u", "e">>

\* len of a Go string: the bytes of the UTF-8 encoding of its runes
len(s) == IF s = <<>> THEN 0
          ELSE LET f[i \in 0..Len(s)] ==
                     IF i = 0 THEN 0 ELSE f[i - 1] + Len(EncodeRune(s[i]))
               IN f[Len(s)]

\* opts[k] of a Go map: the zero value when the key is missing
Get(opts, k) == IF k \in DOMAIN opts THEN opts[k] ELSE <<>>

Has(opts, k) == k \in DOMAIN opts

\* opts[k] = v
Put(opts, k, v) == [j \in DOMAIN opts \cup {k} |-> IF j = k THEN v ELSE opts[j]]

\* an Option: the function that made it, and its argument as runes, as a
\* number or as an error
Opt(name, arg) == [name |-> name, arg |-> arg, n |-> 0, err |-> ""]

WithBorder(border) == [name |-> "WithBorder", arg |-> <<>>, n |-> border, err |-> ""]

withError(err) == [name |-> "withError", arg |-> <<>>, n |-> 0, err |-> err]

\* FromMap for the formats csv and unaligned
FromMapUnaligned(opts, format) ==
  LET csv == format = TextCsv
      field == IF csv THEN "csv_fieldsep" ELSE "fieldsep"
      quote == IF csv THEN "\"" ELSE "NUL"
      given == Has(opts, field)
      sep0 == IF given THEN opts[field][1] ELSE IF csv THEN "," ELSE "|"
      sep == IF ~csv /\ Get(opts, "fieldsep_zero") = TextTrue THEN "NUL" ELSE sep0
      recordsep == IF Get(opts, "recordsep_zero") = TextTrue THEN <<"NUL">>
                   ELSE IF Has(opts, "recordsep") THEN opts["recordsep"]
                   ELSE <<"NL">>
  IN IF given /\ len(opts[field]) # 1
     THEN [builder |-> "newErrEncoder", options |-> <<withError(ErrInvalidFieldSeparator)>>,
           opts |-> opts]
     ELSE [builder |-> "NewUnalignedEncoder",
           options |-> <<Opt("WithSeparator", <<sep>>), Opt("WithQuote", <<quote>>),
                         Opt("WithFormatter", <<sep, quote>>), Opt("WithNewline", recordsep)>>,
           opts |-> opts]

\* FromMap for the format aligned; the maps have no linestyle, no pager and
\* no expanded of auto
FromMapAligned(opts) ==
  LET o1 == IF Has(opts, "border")
            THEN <<WithBorder(Atoi(opts["border"]).n)>> ELSE <<>>
      tuples == Has(opts, "tuples_only") /\ opts["tuples_only"] = TextOn
      o2 == IF tuples THEN Append(o1, Opt("WithSkipHeader", TextTrue)) ELSE o1
      opts2 == IF tuples THEN Put(opts, "footer", TextOff) ELSE opts
      o3 == IF Has(opts2, "title") THEN Append(o2, Opt("WithTitle", opts2["title"])) ELSE o2
      o4 == IF Has(opts2, "footer") /\ opts2["footer"] = TextOff
            THEN Append(o3, Opt("WithSummary", <<>>)) ELSE o3
      on == Has(opts2, "expanded") /\ opts2["expanded"] = TextOn
  IN [builder |-> IF on THEN "NewExpandedEncoder" ELSE "NewTableEncoder",
      options |-> o4, opts |-> opts2]

\* FromMap: [builder, options], and the map as the call leaves it
FromMap(opts) ==
  LET format == Get(opts, "format")
  IN IF format = TextJson
     THEN [builder |-> "NewJSONEncoder", options |-> <<>>, opts |-> opts]
     ELSE IF format \in {TextCsv, TextUnaligned} THEN FromMapUnaligned(opts, format)
     ELSE IF format \in TemplateFormats
     THEN [builder |-> "NewTemplateEncoder",
           options |-> <<Opt("WithTemplate", format),
                         Opt("WithTableAttributes", Get(opts, "tableattr")),
                         Opt("WithTitle", Get(opts, "title"))>>,
           opts |-> opts]
     ELSE IF format = TextAligned THEN FromMapAligned(opts)
     ELSE [builder |-> "newErrEncoder", options |-> <<withError(ErrInvalidFormat)>>,
           opts |-> opts]

\* the encoder a Builder starts from
EncoderOf(builder) ==
  [kind |-> CASE builder = "NewJSONEncoder" -> "JSONEncoder"
              [] builder = "NewUnalignedEncoder" -> "UnalignedEncoder"
              [] builder = "NewTemplateEncoder" -> "TemplateEncoder"
              [] builder = "NewTableEncoder" -> "TableEncoder"
              [] builder = "NewExpandedEncoder" -> "TableEncoder"
              [] OTHER -> "errEncoder",
   err |-> "", applied |-> <<>>]

\* the error of reading a file that is not there
ErrNotExist == "file does not exist"

\* the templates of the package templates (go:embed *.txt): html.txt alone;
\* there is none for asciidoc, latex, latex-longtable and troff-ms
Templates == {TextHtml}

\* templates.Templates.ReadFile(name + ".txt"): whether the file is there
ReadFile(name) == name \in Templates

\* o(enc) for an Option o: [enc, err]. withError sets the err of an
\* errEncoder and returns the error; WithTemplate on a TemplateEncoder
\* returns the error of reading a template that is not there; the other
\* Options set a field of the encoder and return nil
applyOption(o, enc) ==
  IF o.name = "withError"
  THEN [enc |-> IF enc.kind = "errEncoder" THEN [enc EXCEPT !.err = o.err] ELSE enc,
        err |-> o.err]
  ELSE IF o.name = "WithTemplate" /\ enc.kind = "TemplateEncoder" /\ ~ReadFile(o.arg)
  THEN [enc |-> enc, err |-> ErrNotExist]
  ELSE [enc |-> [enc EXCEPT !.applied = Append(enc.applied, o.name)], err |-> ""]

\* for _, o := range opts { if err := o(enc); err != nil { return nil, err } }
RECURSIVE applyOptions(_, _)
applyOptions(opts, enc) ==
  IF opts = <<>> THEN [enc |-> enc, err |-> ""]
  ELSE LET r == applyOption(Head(opts), enc)
       IN IF r.err # "" THEN [enc |-> NilEncoder, err |-> r.err]
          ELSE applyOptions(Tail(opts), r.enc)

\* a Builder called with the options: [enc, err]. newErrEncoder returns
\* enc, enc.err after the options; NewExpandedEncoder wraps the TableEncoder
Build(builder, opts) ==
  LET r == applyOptions(opts, EncoderOf(builder))
  IN IF r.err # "" THEN r
     ELSE IF builder = "newErrEncoder" THEN [enc |-> r.enc, err |-> r.enc.err]
     ELSE IF builder = "NewExpandedEncoder"
     THEN [enc |-> [r.enc EXCEPT !.kind = "ExpandedEncoder"], err |-> ""]
     ELSE r

\* errEncoder.Encode and errEncoder.EncodeAll
errEncoderEncode(enc) == enc.err

OptionValues ==
  [format : {TextJson, TextCsv, TextUnaligned, TextAligned, <<"x">>, <<>>} \cup TemplateFormats,
   border : {<<"2">>, <<"x">>},
   tuples_only : {TextOn, TextOff},
   footer : {TextOn, TextOff},
   expanded : {TextOn, TextOff},
   fieldsep : {<<",">>, <<",", ",">>, <<>>, <<"WIDE">>, <<"NEL">>, <<"TAG">>},
   csv_fieldsep : {<<",">>, <<",", ",">>, <<>>}]

OptionKeys == {"format", "border", "tuples_only", "footer", "expanded", "fieldsep",
               "csv_fieldsep"}

\* the keys a format reads
KeysOf(format) ==
  CASE format = TextAligned -> {"border", "tuples_only", "footer", "expanded"}
    [] format = TextCsv -> {"csv_fieldsep"}
    [] format = TextUnaligned -> {"fieldsep"}
    [] OTHER -> {"border"}

OptionMaps ==
  {[k \in K |-> r[k]] : K \in SUBSET {"border"}, r \in OptionValues}
    \cup {[k \in K \cup {"format"} |-> r[k]] :
            K \in SUBSET OptionKeys, r \in OptionValues}

OptsInit ==
  /\ FormatIdle /\ ViewIdle /\ EncIdle /\ PagerIdle
  /\ opc = "call"
  /\ oopts \in {m \in OptionMaps : DOMAIN m \subseteq {"format"} \cup KeysOf(Get(m, "format"))}
  /\ ocall \in {"Encode", "EncodeAll"}
  /\ obuilder = "" /\ ooptions = <<>> /\ oenc = NilEncoder
  /\ oberr = "" /\ oerr = "" /\ owrote = FALSE

\* f, opts := FromMap(options)
CallFromMap ==
  /\ opc = "call"
  /\ LET r == FromMap(oopts)
     IN obuilder' = r.builder /\ ooptions' = r.options /\ oopts' = r.opts
  /\ opc' = "map"
  /\ UNCHANGED <<ocall, oenc, oberr, oerr, owrote, fvars, vvars, evars, pvars>>

\* enc, err := f(resultSet, opts...); if err != nil { return err }
CallBuilder ==
  /\ opc = "map"
  /\ LET r == Build(obuilder, ooptions)
     IN /\ oenc' = r.enc /\ oberr' = r.err
        /\ IF r.err # "" THEN opc' = "returned" /\ oerr' = r.err
           ELSE opc' = "built" /\ UNCHANGED oerr
  /\ UNCHANGED <<oopts, ocall, obuilder, ooptions, owrote, fvars, vvars, evars, pvars>>

\* return enc.Encode(w), return enc.EncodeAll(w): an errEncoder returns its
\* err and writes nothing; the other encoders write the result set, which
\* has a column and a row and does not fail
CallEncode ==
  /\ opc = "built"
  /\ IF oenc.kind = "errEncoder"
     THEN oerr' = errEncoderEncode(oenc) /\ UNCHANGED owrote
     ELSE oerr' = "" /\ owrote' = TRUE
  /\ opc' = "returned"
  /\ UNCHANGED <<oopts, ocall, obuilder, ooptions, oenc, oberr, fvars, vvars, evars, pvars>>

OptsNext == CallFromMap \/ CallBuilder \/ CallEncode

SpecOpts == OptsInit /\ [][OptsNext]_vars

\* the format of the map is missing or not one FromMap knows
UnknownFormat(opts) ==
  Get(opts, "format") \notin {TextJson, TextCsv, TextUnaligned, TextAligned} \cup TemplateFormats

\* C20: for a map whose format is missing or unrecognized, FromMap returns
\* a Builder and Options with which building the encoder does not fail: the
\* Builder returns an encoder and a nil error, and Encode and EncodeAll of
\* that encoder return ErrInvalidFormat and write nothing, so that the
\* error comes from encoding and not from the construction.
C20_InvalidFormatNoOpEncoder ==
  (UnknownFormat(oopts) /\ opc \in {"built", "returned"}) =>
    /\ oberr = "" /\ oenc.kind = "errEncoder"
    /\ opc = "returned" => (oerr = ErrInvalidFormat /\ ~owrote)

\* whether the text t is in the tokens of a written line
HasText(toks, t) ==
  \E p \in 1..(Len(toks) - Len(t) + 1) : SubSeq(toks, p, p + Len(t) - 1) = Text(t)

\* C22: in the expanded layout, the record header written before the k-th
\* row of the result set (k from 1, over the whole result set) carries the
\* number k, "[ RECORD k ]" with a border and "* Record k" without, for
\* every batch count: the numbers do not start again at a batch.
C22_RecordNumbers ==
  \A k \in 1..Len(eout) :
    (eout[k].kind = "record" /\ eout[k].l = 0) =>
      HasText(eout[k].toks, recordHeader(eout[k].src - 1, eborder))

\* the positions in eout of the end borders of the table layout: the
\* dividers that come right after a line of a row
EndBorders ==
  {k \in 2..Len(eout) :
     eout[k].by = "table" /\ eout[k].kind = "divider" /\ eout[k - 1].kind = "row"}

\* C23: in one Encode of a TableEncoder with border >= 2 on a result set
\* with at least one row, the end border is drawn exactly once, after the
\* last row of the last batch and before the summary, for every batch
\* count: no end border is between two batches.
C23_EndBorderOnce ==
  (ekind = "table" /\ eminExpand = 0 /\ eborder >= 2 /\ Len(erows) >= 1 /\ epc = "done") =>
    /\ Cardinality(EndBorders) = 1
    /\ \A b \in EndBorders :
         /\ \A k \in 1..Len(eout) : eout[k].kind = "row" => k < b
         /\ \A k \in 1..Len(eout) : eout[k].kind = "summary" => k > b

\* the content b with p cells of filler placed for the alignment a: all
\* after it when left-aligned, all before it when right-aligned, and
\* floor(p/2) before and ceil(p/2) after when centered
Filled(b, rs, a, p) ==
  LET before == IF a = AlignRight THEN p ELSE IF a = AlignCenter THEN p \div 2 ELSE 0
  IN repeat(rs.filler, before) \o Text(b) \o repeat(rs.filler, p - before)

\* the width row takes line l of the cell i (0-based) of vals to have
CellLineWidth(vals, i, l, offsets) ==
  LET v == orEmpty(vals[i + 1])
      lines == Len(v.Newlines)
  IN (IF l < lines THEN v.Newlines[l + 1][2] ELSE 0)
       + (IF Len(v.Tabs) # 0 /\ Len(v.Tabs[l + 1]) # 0
          THEN tabwidth(v.Tabs[l + 1], offsets[i + 1], DefaultTab) ELSE 0)
       + (IF l = lines THEN v.Width ELSE 0)

\* line l of a row of the table with every cell line that is not wider
\* than its column filled for its alignment
FilledLine(vals, l, rs, border, maxWidths, offsets) ==
  LET cell(i) ==
        LET v == orEmpty(vals[i + 1])
            lines == Len(v.Newlines)
            p == maxWidths[i + 1] - CellLineWidth(vals, i, l, offsets)
        IN IF l <= lines /\ p >= 0
           THEN Filled(LineBytes(v, l), rs, v.Align, p)
                  \o (IF l < lines THEN <<rs.wrapper>> ELSE <<rs.filler>>)
                  \o rowMiddle(i, rs, border, maxWidths)
           ELSE rowCell(vals, i, l, rs, border, maxWidths, offsets)
  IN rs.left \o Concat([k \in 1..Len(vals) |-> cell(k - 1)]) \o rs.right

\* the lines of the table layout that the last batch wrote
LastBatchLine(k) ==
  /\ eout[k].by = "table"
  /\ \/ eout[k].kind = "row" /\ \E j \in 1..Len(evals) : evals[j] = eout[k].src
     \/ eout[k].kind = "header" /\ ebatches = 1

LineCells(k) == IF eout[k].kind = "header" THEN Headers ELSE Scanned(eout[k].src)

\* C24: every emitted cell line whose content is p cells narrower than its
\* column has its filler placed by the alignment of the cell: p cells after
\* the content when left-aligned, p before when right-aligned, floor(p/2)
\* before and ceil(p/2) after when centered; in every column, the last one
\* included, and for every border.
C24_FillerByAlignment ==
  (ekind = "table" /\ epc = "loop" /\ ebatches >= 1) =>
    \A k \in 1..Len(eout) :
      LastBatchLine(k) =>
        eout[k].toks = FilledLine(LineCells(k), eout[k].l, rowStyle(eborder, "Row"),
                                  eborder, emaxWidths, eoffsets)

\* the most lines a cell of vals has after its first one: the maximum of
\* len(Newlines), enc.empty standing for a nil cell
MaxNewlines(vals) == SetMax({Len(orEmpty(vals[k]).Newlines) : k \in 1..Len(vals)})

\* the positions in eout of the lines that row wrote for the row src of the
\* result set in the table layout
RowLinesAt(src) ==
  {k \in 1..Len(eout) : eout[k].by = "table" /\ eout[k].kind = "row" /\ eout[k].src = src}

\* C25: for every row, the loop of TableEncoder.row ends and writes exactly
\* 1 + max over the cells of len(Newlines) physical lines, one for each
\* pass: it goes on while a cell has a line left and stops after the first
\* pass with none; in the expanded layout the same holds for the line pair
\* of every field, a record having the lines of its fields.
C25_RowLineCount ==
  /\ \A s \in 1..Len(erows) :
       RowLinesAt(s) # {} =>
         /\ Cardinality(RowLinesAt(s)) = 1 + MaxNewlines(Scanned(s))
         /\ {eout[k].l : k \in RowLinesAt(s)} = 0..MaxNewlines(Scanned(s))
         /\ \A k \in RowLinesAt(s) : k + 1 \in RowLinesAt(s) => eout[k + 1].l = eout[k].l + 1
  /\ \A s \in 1..Len(erows) :
       LET fields == {k \in 1..Len(eout) : eout[k].kind = "field" /\ eout[k].src = s}
           sum[j \in 0..Len(ecols)] ==
             IF j = 0 THEN 0
             ELSE sum[j - 1] + 1 + MaxNewlines(<<Headers[j], Scanned(s)[j]>>)
       IN fields # {} => Cardinality(fields) = sum[Len(ecols)]

\* a row of two cells, the first of two lines and the second of one, is
\* written as two lines
C25_Witness ==
  /\ epc = "done" /\ Len(ecols) = 2 /\ erows # <<>>
  /\ Len(orEmpty(Scanned(1)[1]).Newlines) = 1 /\ Len(orEmpty(Scanned(1)[2]).Newlines) = 0
  /\ Cardinality(RowLinesAt(1)) = 2

\* C27: in one Encode of an ExpandedEncoder with a batch count above 0,
\* the width of the value column (maxWidths[1]) after the batch k+1 is
\* measured is at least its width after the batch k was.
C27_ValueColumnNeverShrinks ==
  (ekind = "expanded" /\ ecount > 0 /\ epc = "emit" /\ ebatches >= 2) =>
    emaxWidths[2] >= eprev[2]

\* the widths of one render computed from the caller's minimum widths and
\* from the header and the cells of the batch measured: what maxWidths is
\* after the first batch of a result set
OwnWidths ==
  [i \in 1..Len(ecols) |->
     SetMax({IF Len(ewidths) = Len(ecols) THEN ewidths[i] ELSE 0,
             MaxWidth(Headers[i], eoffsets[i], DefaultTab)}
              \cup {MaxWidth(orEmpty(Scanned(evals[j])[i]), eoffsets[i], DefaultTab) :
                      j \in 1..Len(evals)})]

\* C28: Encode of a TableEncoder never writes to the slice the caller gave
\* WithWidths, and the widths of each render come from the caller's
\* minimum widths and from that result set's own header and cells: a width
\* grown for one result set is not carried into the next result set of
\* EncodeAll.
C28_WidthsNotShared ==
  ekind = "table" =>
    /\ widths = ewidths
    /\ (epc = "emit" /\ ebatches = 1) => emaxWidths = OwnWidths

\* C30: NewCrosstabView ends with a view or with a returned error whatever
\* the source rows hold: a source row whose vertical or horizontal cell is
\* NULL does not crash the build with a nil dereference.
C30_NullKeyDoesNotCrash == vpc # "crashed"

\* ------------------------------------------------------------------------
\* Encode and its writers: the buffered writer, the pager, failing writes
\* ------------------------------------------------------------------------
\* the size of the buffer of enc.w
BufSize == 2048

\* the number of rows after which encodeVals is to flush
FlushEvery == 1000

\* the bytes of a written line (a row, a border, a record header or a
\* field) and of the newline
LineSize == 600

NewlineSize == 1

\* a result set of more rows than FlushEvery
ManyRows == FlushEvery + 10

\* the height at which the pager is to start, when one is given
PagerHeight == 6

\* syscall.EPIPE, and the error of a writer that fails
EPIPE == "broken pipe"

ErrSink == "write failed"

\* a Write call on the writer dst under a bufio.Writer: [io, n, err]
underWrite(io, dst, k) ==
  LET u == io[dst]
      fails == u.ok # Never /\ u.writes >= u.ok
  IN [io |-> [io EXCEPT ![dst] = [u EXCEPT !.writes = @ + 1,
                                            !.bytes = @ + (IF fails THEN 0 ELSE k)]],
      err |-> IF ~fails THEN "" ELSE IF dst = "pipe" THEN EPIPE ELSE ErrSink]

\* a Write call on the writer dst has failed
Failed(io, dst) == io[dst].ok # Never /\ io[dst].writes > io[dst].ok

\* bufio.Writer.Flush of the writer w ("enc" or "exp"): [io, err]. The
\* error of the writer under it is kept, and the bytes stay in the buffer
Flush(io, w) ==
  IF io[w].err # "" THEN [io |-> io, err |-> io[w].err]
  ELSE IF io[w].n = 0 THEN [io |-> io, err |-> ""]
  ELSE LET r == underWrite(io, io[w].dst, io[w].n)
       IN IF r.err # "" THEN [io |-> [r.io EXCEPT ![w].err = r.err], err |-> r.err]
          ELSE [io |-> [r.io EXCEPT ![w].n = 0], err |-> ""]

\* bufio.Writer.Write of k bytes to the writer w: [io, err]. Bytes that do
\* not fit fill the buffer, which is flushed; an empty buffer hands a
\* write larger than itself to the writer under it
RECURSIVE Write(_, _, _)
Write(io, w, k) ==
  LET avail == BufSize - io[w].n
  IN IF io[w].err # "" THEN [io |-> io, err |-> io[w].err]
     ELSE IF k <= avail THEN [io |-> [io EXCEPT ![w].n = @ + k], err |-> ""]
     ELSE IF io[w].n = 0
     THEN LET r == underWrite(io, io[w].dst, k)
          IN [io |-> [r.io EXCEPT ![w].err = r.err], err |-> r.err]
     ELSE LET f == Flush([io EXCEPT ![w].n = BufSize], w)
          IN IF f.err # "" THEN f ELSE Write(f.io, w, k - avail)

\* a write of Encode to the writer of the batch, whose error row, divider
\* and record do not look at; cmd tells whether the pager has been started
Emit(io, k, cmd) ==
  LET r == Write(io, io.cur, k)
  IN IF cmd THEN [r.io EXCEPT !.after = @ + k] ELSE [r.io EXCEPT !.before = @ + k]

\* n lines written one after the other
RECURSIVE EmitLines(_, _, _)
EmitLines(io, n, cmd) ==
  IF n = 0 THEN io ELSE EmitLines(Emit(io, LineSize, cmd), n - 1, cmd)

\* checkErr: a broken pipe is no error once the pager has been started
checkErr(err, cmd) == IF cmd /\ err = EPIPE THEN "" ELSE err

\* encodeVals, after the row i (0-based) of the batch: i+1%1000 == 0, in
\* which % binds before +
flushDue(i) == i + (1 % FlushEvery) = 0

\* nextResults on a result set that does not fail: the rows of the batch
batchRows(rows, pos, count) ==
  IF count = 0 \/ rows - pos < count THEN rows - pos ELSE count

\* TableEncoder.tableHeight and ExpandedEncoder.tableHeight for a batch of
\* n rows of one column whose cells have one line; summary tells whether
\* the summary map has an entry for the rows
tableHeightOf(layout, n, border, summary) ==
  (IF layout = "table"
   THEN (IF border >= 2 THEN 1 ELSE 0) + 1 + n
   ELSE n * 2)
    + (IF border >= 2 THEN 1 ELSE 0) + (IF summary THEN 1 ELSE 0)

\* the lines of TableEncoder.header: the top border, the header, the
\* divider under it
headerLines(border) == (IF border >= 2 THEN 1 ELSE 0) + 2

\* the options and the result set: the encoder, the rows of the result set
\* (of one column), count, border, whether a pager command is given,
\* minPagerHeight, the batch from which the table is as wide as
\* minExpandWidth and the one from which it is as wide as minPagerWidth (0:
\* the option is not given or the width not reached), and the Write calls
\* the writer and the pipe of the pager take before they fail
PagerConfigs ==
  {c \in [kind : {"table", "expanded"}, rows : {0, 1, 2, 3, 4}, count : 0..2,
          border : {1, 2}, pager : BOOLEAN, minH : {0, PagerHeight}, expandAt : 0..2,
          pageAt : {0, 2}, sinkOk : {Never, 0, 1}, pipeOk : {Never, 0, 1}] :
     /\ c.kind = "expanded" => (c.expandAt = 0 /\ c.pageAt = 0)
     /\ c.pageAt # 0 => c.expandAt = 0
     /\ ~c.pager => (c.minH = 0 /\ c.pageAt = 0 /\ c.pipeOk = Never)
     /\ c.pager => c.sinkOk = Never
     /\ c.sinkOk # Never => c.expandAt = 0}
    \cup
  {[kind |-> k, rows |-> ManyRows, count |-> 0, border |-> 1, pager |-> FALSE, minH |-> 0,
    expandAt |-> 0, pageAt |-> 0, sinkOk |-> s, pipeOk |-> Never] :
     k \in {"table", "expanded"}, s \in {Never, 1}}

PagerInit ==
  /\ FormatIdle /\ ViewIdle /\ EncIdle /\ OptsIdle
  /\ ppc = "start"
  /\ pcfg \in PagerConfigs
  /\ pio = NewIO(pcfg.sinkOk, pcfg.pipeOk)
  /\ pcmd = FALSE /\ pscan = 0 /\ pbatch = 0 /\ pnb = 0 /\ pi = 0 /\ playout = pcfg.kind
  /\ pwroteHeader = FALSE /\ perr = "" /\ psince = 0

\* Encode, up to the loop: scanCount is 0 and enc.w a new buffered writer
\* on the writer handed in
PStart ==
  /\ ppc = "start"
  /\ pscan' = 0 /\ pio' = [pio EXCEPT !.enc = NewWriterSize("sink"), !.cur = "enc"]
  /\ pwroteHeader' = FALSE
  /\ ppc' = "loop"
  /\ UNCHANGED <<pcfg, pcmd, pbatch, pnb, pi, playout, perr, psince, fvars, vvars, evars, ovars>>

\* whether Encode starts the pager for the batch
startsPager(cfg, cmd, layout, batch, n) ==
  /\ cfg.pager /\ ~cmd
  /\ \/ cfg.minH # 0
          /\ tableHeightOf(layout, n, cfg.border, cfg.kind = "table") >= cfg.minH
     \/ layout = "table" /\ cfg.pageAt # 0 /\ batch >= cfg.pageAt

\* Encode, a turn of the loop up to encodeVals: the batch is read and
\* measured, a TableEncoder takes the expanded layout for it if the table
\* is wide enough, the pager is started if the batch is high or wide enough
\* (on exp.w in the expanded layout of a TableEncoder, on enc.w else), and
\* the header is written if it has not been
PBatch ==
  /\ ppc = "loop"
  /\ LET n == batchRows(pcfg.rows, pscan, pcfg.count)
         batch == pbatch + 1
         layout == IF pcfg.kind = "expanded" THEN "expanded"
                   ELSE IF pcfg.expandAt # 0 /\ batch >= pcfg.expandAt THEN "expanded"
                   ELSE "table"
         starts == startsPager(pcfg, pcmd, layout, batch, n)
         io1 == IF ~starts THEN [pio EXCEPT !.cur = "enc"]
                ELSE IF pcfg.kind = "table" /\ layout = "expanded"
                THEN [pio EXCEPT !.exp = NewWriterSize("pipe"), !.cur = "exp"]
                ELSE [pio EXCEPT !.enc = NewWriterSize("pipe"), !.cur = "enc"]
         first == layout = "table" /\ ~pwroteHeader
     IN IF n = 0
        THEN /\ ppc' = "summarize"
             /\ UNCHANGED <<pio, pcmd, pscan, pbatch, pnb, pi, playout, pwroteHeader>>
        ELSE /\ ppc' = "rows" /\ pbatch' = batch /\ pnb' = n /\ pi' = 0
             /\ pscan' = pscan + n /\ playout' = layout
             /\ pcmd' = (pcmd \/ starts)
             /\ pio' = IF first THEN EmitLines(io1, headerLines(pcfg.border), pcmd') ELSE io1
             /\ pwroteHeader' = (pwroteHeader \/ first)
  /\ UNCHANGED <<pcfg, perr, psince, fvars, vvars, evars, ovars>>

\* encodeVals, one row: the line of the row, or the header and the field of
\* the record; then the flush, whose error Encode returns through checkErr
PRow ==
  /\ ppc = "rows" /\ pi < pnb
  /\ LET io1 == EmitLines(pio, IF playout = "table" THEN 1 ELSE 2, pcmd)
         f == IF flushDue(pi) THEN Flush(io1, io1.cur) ELSE [io |-> io1, err |-> ""]
     IN /\ pio' = f.io
        /\ IF f.err # ""
           THEN ppc' = "returned" /\ perr' = checkErr(f.err, pcmd)
           ELSE UNCHANGED <<ppc, perr>>
  /\ pi' = pi + 1
  /\ psince' = IF Failed(pio, "sink") THEN psince + 1 ELSE psince
  /\ UNCHANGED <<pcfg, pcmd, pscan, pbatch, pnb, playout, pwroteHeader, fvars, vvars, evars, ovars>>

\* the end of the batch: the end border with border >= 2 (in the expanded
\* layout if rows have been scanned), and exp is dropped
PBatchEnd ==
  /\ ppc = "rows" /\ pi = pnb
  /\ LET io1 == IF pcfg.border >= 2 /\ (playout = "table" \/ pscan # 0)
                THEN EmitLines(pio, 1, pcmd) ELSE pio
     IN pio' = [io1 EXCEPT !.cur = "enc"]
  /\ ppc' = "loop"
  /\ UNCHANGED <<pcfg, pcmd, pscan, pbatch, pnb, pi, playout, pwroteHeader, perr, psince,
                 fvars, vvars, evars, ovars>>

\* the decimal digits of n >= 0
RECURSIVE digits(_)
digits(n) == IF n < 10 THEN 1 ELSE 1 + digits(n \div 10)

\* DefaultTableSummary: the bytes of "(%d row)" for a count of 1 and of
\* "(%d rows)" for any other count
summarySize(count) == digits(count) + (IF count = 1 THEN 6 ELSE 7)

\* summarize, on enc.w: the text of the summary and the newline. A
\* TableEncoder has the default summary and Encode returns the error of
\* summarize as it is; an ExpandedEncoder has none
PSummarize ==
  /\ ppc = "summarize"
  /\ IF pcfg.kind = "expanded"
     THEN ppc' = "flush" /\ UNCHANGED <<pio, perr>>
     ELSE LET size == summarySize(pscan)
              text == Write(pio, "enc", size)
              nl == Write(text.io, "enc", NewlineSize)
              err == IF text.err # "" THEN text.err ELSE nl.err
              io1 == IF text.err # "" THEN text.io ELSE nl.io
              k == size + (IF text.err # "" THEN 0 ELSE NewlineSize)
          IN /\ pio' = IF pcmd THEN [io1 EXCEPT !.after = @ + k]
                       ELSE [io1 EXCEPT !.before = @ + k]
             /\ IF err # "" THEN ppc' = "returned" /\ perr' = err
                ELSE ppc' = "flush" /\ UNCHANGED perr
  /\ UNCHANGED <<pcfg, pcmd, pscan, pbatch, pnb, pi, playout, pwroteHeader, psince,
                 fvars, vvars, evars, ovars>>

\* the end of Encode: enc.w is flushed, its error goes through checkErr;
\* the pipe of the pager is closed and the pager, which exits with status
\* 0, is waited for
PFlush ==
  /\ ppc = "flush"
  /\ LET f == Flush(pio, "enc")
     IN pio' = f.io /\ perr' = checkErr(f.err, pcmd)
  /\ ppc' = "returned"
  /\ UNCHANGED <<pcfg, pcmd, pscan, pbatch, pnb, pi, playout, pwroteHeader, psince,
                 fvars, vvars, evars, ovars>>

PagerNext == PStart \/ PBatch \/ PRow \/ PBatchEnd \/ PSummarize \/ PFlush

SpecPager == PagerInit /\ [][PagerNext]_vars

\* C21: when the output goes through the pager and a write to the pager
\* fails with a broken pipe, Encode returns nil, wherever the failure comes
\* up: while rows are written, while the summary is written, or at the
\* last flush.
C21_BrokenPipeIsNoError ==
  (ppc = "returned" /\ pcmd /\ Failed(pio, "pipe")) => perr = ""

\* C26: if the writer starts to fail while a TableEncoder or an
\* ExpandedEncoder writes a batch, the failure is found within 1000 further
\* rows (the rows are flushed and the error of the writer looked at every
\* 1000 rows) and Encode returns that error, also with count 0, when the
\* result set is one batch.
C26_SinkFailureWithinThousandRows ==
  /\ psince <= FlushEvery
  /\ (ppc = "returned" /\ Failed(pio, "sink")) => perr = ErrSink

\* C29: when the pager is started during Encode, in whichever batch and in
\* whichever layout, no written line is lost or written twice: what was
\* written before the pager started has reached the writer handed to
\* Encode, and what was written after it has reached the pager when Encode
\* returns.
C29_NothingLostAtPagerStart ==
  (ppc = "returned" /\ pcmd /\ pcfg.pipeOk = Never) =>
    /\ pio.sink.bytes = pio.before
    /\ pio.pipe.bytes = pio.after

====
